---- MODULE Spec2Model ----
(***************************************************************************)
(* Verification model of the fast-food nutrition scraper.                  *)
(*                                                                         *)
(*   SpecFetch : BaseScraper.fetch_page, RateLimiter.wait and ScraperStats *)
(*               (scrapers/base_scraper.py), driven by the three scraper   *)
(*               instances that one pipeline run creates (main.py).        *)
(*   SpecCkpt  : DataPersistence.save_checkpoint / load_checkpoints        *)
(*               (src/utils.py).                                           *)
(*   SpecPipe  : FastFoodNutritionScraper.run_full_pipeline and its stages *)
(*               (main.py, scrapers/*.py).                                 *)
(*                                                                         *)
(* Time is counted in ticks.  Statements take no time; time passes in      *)
(* time.sleep, while an HTTP GET is under way, and while the caller of     *)
(* fetch_page works between two calls.                                     *)
(***************************************************************************)
EXTENDS Integers, Sequences, FiniteSets, TLC

\* ------------------------------------------------------------------ bounds
\* Largest clock value explored.
MaxTime == 9
\* Longest restaurant name given to save_checkpoint, in characters.
MaxNameLen == 2
\* Largest number of save_checkpoint calls.
MaxSaves == 2
\* Largest number of restaurant cards on the listing page.
MaxCards == 2
\* Largest number of menu items on a restaurant page.
MaxItems == 2
\* Number of pipeline runs explored (a run, then reruns on the same disk).
MaxRuns == 2
\* Largest max_retries explored.
MaxRetriesCfg == 3
\* Largest number of fetch_page calls one scraper instance makes (stages 2, 3).
MaxCalls == 2
\* Longest time one GET takes, and longest time the caller spends between calls.
MaxStep == 2
\* Longest time time.sleep oversleeps.
MaxOversleep == 1

\* Python's None, for the optional time stamps.
None == -1

VARIABLES
    \* ---- ScraperConfig (base_scraper.py:28-38)
    max_retries, retry_delay, rate_limit_delay,
    \* ---- clock
    now,
    \* ---- the scraper instance of the running stage
    stage,              \* 0 before stage 1; 1..3 the stage whose scraper exists; 4 run over
    last_request_time,  \* RateLimiter.last_request_time
    stats,              \* ScraperStats counters
    \* ---- the fetch_page call under way
    fpc, attempt, result,
    \* ---- observations
    callsInStage,       \* fetch_page calls made on this scraper instance
    callGets,           \* GETs issued by the call under way
    callFails,          \* failed attempts of the call under way
    statsAtCall,        \* stats when the call under way started
    prev_request_time,  \* last_request_time before the latest wait()
    waitSlept,          \* time the latest wait() slept
    lastGet, prevGet,   \* the latest two GETs: [time, stage]
    \* ---- the checkpoint directory (src/utils.py)
    ckptDir,            \* file name -> the mapping the file holds
    saved,              \* observation: restaurant name -> value given to save_checkpoint
    loaded,             \* the mapping the latest load_checkpoints returned
    loadedFresh,        \* observation: no save since the latest load_checkpoints
    \* ---- the pipeline (main.py)
    settings,           \* ScraperSettings
    run,                \* number of the run under way
    ppc,                \* position of run_full_pipeline
    restaurants,        \* stage 1 result: list of [name, url]
    menu_keys,          \* menu_data: its keys in dict order
    menu_data,          \* menu_data: restaurant name -> entry
    checkpoints,        \* scrape_nutrition_data: the loaded checkpoint mapping
    idx,                \* loop position of the running stage
    processed_items,    \* NutritionScraper.scrape: items of the restaurant under way
    enriched_data,      \* restaurant name -> enriched entry
    files,              \* output directory: numbered file -> run that wrote it last
    written,            \* observation: files written by this run
    transformed,        \* observation: transform was invoked in this run
    fetched,            \* observation: pages fetched by this run, [stage, owner]
    menu_outcomes,      \* observation: per restaurant of stage 2, how its scrape ended
    stagesStarted,      \* observation: stages started by this run, in order
    yielded,            \* observation: per finished stage, "empty" or "nonempty"
    completed,          \* observation: restaurants stage 3 has completed in this run
    prevCompleted,      \* observation: restaurants stage 3 completed in earlier runs
    \* ---- one item of the nutrition stage (scrapers/nutrition_scraper.py)
    item,               \* the dict given to process_menu_item
    ipc,                \* position of process_menu_item and of its caller
    dropdown,           \* the size selector of the item's default page
    options,            \* what extract_dropdown_options returned
    opt_pos,            \* position of the loop over options
    serving_sizes,      \* the serving dicts collected so far
    aggregated_allergens, aggregated_ingredients,
    variant_pages,      \* observation: the pages data was extracted from, [url, page]
    failure,            \* observation: message of the exception raised, "" if none
    processed_item,     \* what the call of process_menu_item returned
    emitted,            \* the items NutritionScraper.scrape has appended
    item_fetches,       \* observation: the fetch_page calls made, [url, result]
    \* ---- one page handed to an extractor (scrapers/*.py)
    document,           \* the parts of the page the extractor reads
    xpc,                \* which extractor the page is for, and whether it has run
    extracted           \* what the extractor returned

fetchVars == <<max_retries, retry_delay, rate_limit_delay, now, stage,
               last_request_time, stats, fpc, attempt, result, callsInStage,
               callGets, callFails, statsAtCall, prev_request_time, waitSlept,
               lastGet, prevGet>>

ckptVars == <<ckptDir, saved, loaded, loadedFresh>>

pipeVars == <<settings, run, ppc, restaurants, menu_keys, menu_data,
              checkpoints, idx, processed_items, enriched_data, files, written,
              transformed, fetched, menu_outcomes, stagesStarted, yielded,
              completed, prevCompleted>>

itemVars == <<item, ipc, dropdown, options, opt_pos, serving_sizes,
              aggregated_allergens, aggregated_ingredients, variant_pages,
              failure, processed_item, emitted, item_fetches>>

pageVars == <<document, xpc, extracted>>

vars == <<fetchVars, ckptVars, pipeVars, itemVars, pageVars>>

\* ------------------------------------------------------------ ScraperStats
ZeroStats == [total_requests |-> 0, successful_requests |-> 0,
              failed_requests |-> 0, total_retries |-> 0]

record_success(s) ==
    [s EXCEPT !.total_requests = @ + 1, !.successful_requests = @ + 1]

record_failure(s) ==
    [s EXCEPT !.total_requests = @ + 1, !.failed_requests = @ + 1]

\* record_retry counting nothing.
record_retry_Skipped(s) == s

record_retry(s) == [s EXCEPT !.total_retries = @ + 1]

\* ------------------------------------------------------------- RateLimiter
\* wait() that never sleeps.
WaitSleep_Never(last, t, min_delay) == 0

\* wait() sleeping one tick too little.
WaitSleep_Short(last, t, min_delay) ==
    IF last # None /\ t - last < min_delay THEN min_delay - (t - last) - 1 ELSE 0

\* The time wait() sleeps: min_delay - elapsed when a previous request exists
\* and less than min_delay has elapsed since it, else no sleep.
WaitSleep(last, t, min_delay) ==
    IF last # None /\ t - last < min_delay THEN min_delay - (t - last) ELSE 0

\* -------------------------------------------------------------- fetch_page
RECURSIVE Pow2(_)
Pow2(n) == IF n = 0 THEN 1 ELSE 2 * Pow2(n - 1)

\* for attempt in range(max_retries)
InRange(a, mr) == a < mr

\* The off-by-one test attempt < max_retries.
AttemptsRemain_OffByOne(a, mr) == a < mr

\* if attempt < max_retries - 1
AttemptsRemain(a, mr) == a < mr - 1

\* The same delay before every retry.
BackoffTime_Constant(rd, a) == rd

\* wait_time = retry_delay * (2 ** attempt)
BackoffTime(rd, a) == rd * Pow2(a)

NoGet == [time |-> None, stage |-> 0]

\* No scraper constructed yet, no call made.
FetchIdle ==
    /\ now = 0
    /\ stage = 0
    /\ last_request_time = None
    /\ stats = ZeroStats
    /\ fpc = "idle"
    /\ attempt = 0
    /\ result = "pending"
    /\ callsInStage = 0
    /\ callGets = 0
    /\ callFails = 0
    /\ statsAtCall = ZeroStats
    /\ prev_request_time = None
    /\ waitSlept = 0
    /\ lastGet = NoGet
    /\ prevGet = NoGet

\* The defaults of ScraperConfig (lines 32-35), in ticks.
FetchParked ==
    /\ max_retries = 3
    /\ retry_delay = 1
    /\ rate_limit_delay = 1
    /\ FetchIdle

\* The configurations explored, before any scraper is constructed.
FetchStart ==
    /\ max_retries \in 0..MaxRetriesCfg
    /\ retry_delay \in 1..2
    /\ rate_limit_delay \in 1..2
    /\ FetchIdle

cfgVars == <<max_retries, retry_delay, rate_limit_delay>>

\* main.py:186, 219, 262: each stage constructs its own scraper;
\* BaseScraper.__init__ gives it fresh stats and a fresh RateLimiter.
\* Stage 1 makes one fetch_page call; a later stage starts only after it
\* returned a document.  Stage 2 fetches one page per restaurant, of which
\* there is at least one.
NewScraper ==
    /\ fpc = "idle"
    /\ stage < 3
    /\ stage \in 1..2 => callsInStage >= 1
    /\ stage' = stage + 1
    /\ stats' = ZeroStats
    /\ last_request_time' = None
    /\ prev_request_time' = None
    /\ waitSlept' = 0
    /\ callsInStage' = 0
    /\ UNCHANGED <<ckptVars, pipeVars, itemVars, pageVars, cfgVars,
                   now, fpc, attempt, result, callGets, callFails,
                   statsAtCall, lastGet, prevGet>>

\* fetch_page is called (lines 184-187).
FetchPage ==
    /\ fpc = "idle"
    /\ stage \in 1..3
    /\ callsInStage < (IF stage = 1 THEN 1 ELSE MaxCalls)
    /\ fpc' = "loop"
    /\ attempt' = 0
    /\ result' = "pending"
    /\ callGets' = 0
    /\ callFails' = 0
    /\ statsAtCall' = stats
    /\ callsInStage' = callsInStage + 1
    /\ UNCHANGED <<ckptVars, pipeVars, itemVars, pageVars, cfgVars,
                   now, stage, last_request_time, stats,
                   prev_request_time, waitSlept, lastGet, prevGet>>

\* Line 189: the loop head.  When the range is exhausted without a return or
\* a raise the function falls off its end and returns None.
LoopHead ==
    /\ fpc = "loop"
    /\ IF InRange(attempt, max_retries)
       THEN /\ fpc' = "wait"
            /\ result' = result
       ELSE /\ fpc' = "returned"
            /\ result' = "None"
    /\ UNCHANGED <<ckptVars, pipeVars, itemVars, pageVars, cfgVars,
                   now, stage, last_request_time, stats, attempt,
                   callsInStage, callGets, callFails, statsAtCall,
                   prev_request_time, waitSlept, lastGet, prevGet>>

\* Line 192: self.rate_limiter.wait() (lines 120-126).
RateLimiterWait ==
    /\ fpc = "wait"
    /\ LET s == WaitSleep(last_request_time, now, rate_limit_delay) IN
       \E o \in 0..(IF s > 0 THEN MaxOversleep ELSE 0) :
          /\ now + s + o <= MaxTime
          /\ now' = now + s + o
          /\ waitSlept' = s + o
    /\ prev_request_time' = last_request_time
    /\ last_request_time' = now'
    /\ fpc' = "get"
    /\ UNCHANGED <<ckptVars, pipeVars, itemVars, pageVars, cfgVars,
                   stage, stats, attempt, result, callsInStage,
                   callGets, callFails, statsAtCall, lastGet, prevGet>>

\* Lines 195-217: the GET is issued, takes d ticks and succeeds or fails.
HttpGet ==
    /\ fpc = "get"
    /\ \E d \in 0..MaxStep :
          /\ now + d <= MaxTime
          /\ now' = now + d
    /\ prevGet' = lastGet
    /\ lastGet' = [time |-> now, stage |-> stage]
    /\ callGets' = callGets + 1
    /\ \/ \* lines 199-202
          /\ stats' = record_success(stats)
          /\ result' = "doc"
          /\ fpc' = "returned"
          /\ callFails' = callFails
       \/ \* lines 204-217
          /\ callFails' = callFails + 1
          /\ IF AttemptsRemain(attempt, max_retries)
             THEN /\ stats' = record_retry(stats)
                  /\ fpc' = "backoff"
                  /\ result' = result
             ELSE /\ stats' = record_failure(record_retry(stats))
                  /\ fpc' = "raised"
                  /\ result' = "NetworkException"
    /\ UNCHANGED <<ckptVars, pipeVars, itemVars, pageVars, cfgVars,
                   stage, last_request_time, attempt, callsInStage,
                   statsAtCall, prev_request_time, waitSlept>>

\* Lines 211-213: time.sleep(wait_time), then the next iteration.
Backoff ==
    /\ fpc = "backoff"
    /\ \E o \in 0..MaxOversleep :
          /\ now + BackoffTime(retry_delay, attempt) + o <= MaxTime
          /\ now' = now + BackoffTime(retry_delay, attempt) + o
    /\ attempt' = attempt + 1
    /\ fpc' = "loop"
    /\ UNCHANGED <<ckptVars, pipeVars, itemVars, pageVars, cfgVars,
                   stage, last_request_time, stats, result,
                   callsInStage, callGets, callFails, statsAtCall,
                   prev_request_time, waitSlept, lastGet, prevGet>>

\* The call has ended and the caller goes on for d ticks.  In stage 1
\* (restaurant_scraper.py:96-97, main.py:129-131, 175-177) anything but a
\* document ends the run: NetworkException reaches sys.exit, and None makes
\* extract_restaurant_cards yield [] so that the pipeline aborts.
CallerWork ==
    /\ fpc \in {"returned", "raised"}
    /\ \E d \in 0..MaxStep :
          /\ now + d <= MaxTime
          /\ now' = now + d
    /\ fpc' = "idle"
    /\ stage' = IF stage = 1 /\ result # "doc" THEN 4 ELSE stage
    /\ UNCHANGED <<ckptVars, pipeVars, itemVars, pageVars, cfgVars,
                   last_request_time, stats, attempt, result,
                   callsInStage, callGets, callFails, statsAtCall,
                   prev_request_time, waitSlept, lastGet, prevGet>>

FetchNext ==
    \/ NewScraper
    \/ FetchPage
    \/ LoopHead
    \/ RateLimiterWait
    \/ HttpGet
    \/ Backoff
    \/ CallerWork


\* ====================================================== checkpoint store
\* Characters a restaurant name is made of: a letter and the three characters
\* save_checkpoint replaces (the last one is the backslash) and the underscore.
Chars == {"a", " ", "/", "\\", "_"}

\* Restaurant names: the non-empty strings of up to MaxNameLen characters.
CkptNames == UNION {[1..n -> Chars] : n \in 1..MaxNameLen}

\* Values saved under a name.
CkptValues == {"v1", "v2"}

\* str.replace(old, new) for one-character old and new.
Replace(str, old, new) ==
    [i \in 1..Len(str) |-> IF str[i] = old THEN new ELSE str[i]]

\* safe_name that leaves the name as it is.
SafeName_Identity(name) == name

\* Line 112: checkpoint_name.replace(' ', '_').replace('/', '_').replace('\\', '_')
SafeName(name) == Replace(Replace(Replace(name, " ", "_"), "/", "_"), "\\", "_")

\* Line 113: f"checkpoint_{safe_name}.json"
CheckpointFile(name) == <<"checkpoint_">> \o SafeName(name) \o <<".json">>

\* dict.update: the entries of m2 replace and extend those of m1.
DictUpdate(m1, m2) ==
    [k \in DOMAIN m1 \cup DOMAIN m2 |-> IF k \in DOMAIN m2 THEN m2[k] ELSE m1[k]]

\* Lines 137-152: merged_data.update(checkpoint_data) for the files in the
\* order order lists them.
RECURSIVE MergeFiles(_, _)
MergeFiles(dir, order) ==
    IF order = <<>> THEN <<>>
    ELSE DictUpdate(MergeFiles(dir, SubSeq(order, 1, Len(order) - 1)),
                    dir[order[Len(order)]])

\* The orders in which glob.glob may list the files of dir.
GlobOrders(dir) ==
    {o \in [1..Cardinality(DOMAIN dir) -> DOMAIN dir] :
        \A i, j \in DOMAIN o : i # j => o[i] # o[j]}

\* save_checkpoint(data = {name: value}, checkpoint_name = name), lines 99-122,
\* called once per name.
SaveCheckpoint ==
    /\ Cardinality(DOMAIN saved) < MaxSaves
    /\ \E name \in CkptNames \ DOMAIN saved, value \in CkptValues :
          /\ ckptDir' = DictUpdate(ckptDir, CheckpointFile(name) :> (name :> value))
          /\ saved' = DictUpdate(saved, name :> value)
    /\ loadedFresh' = FALSE
    /\ UNCHANGED <<fetchVars, pipeVars, itemVars, pageVars, loaded>>

\* load_checkpoints(), lines 124-152.
LoadCheckpoints ==
    /\ \E order \in GlobOrders(ckptDir) : loaded' = MergeFiles(ckptDir, order)
    /\ loadedFresh' = TRUE
    /\ UNCHANGED <<fetchVars, pipeVars, itemVars, pageVars, ckptDir, saved>>

CkptNext ==
    \/ SaveCheckpoint
    \/ LoadCheckpoints


\* ================================================================ pipeline
\* Restaurant names and page addresses on the site.
PipeNames == {<<"a">>, <<"b">>}
Urls == {"u1", "u2"}

\* The listing pages explored: up to MaxCards cards that carry a name and a link.
Listings == UNION {[1..n -> [name : PipeNames, url : Urls]] : n \in 0..MaxCards}

\* The value a checkpoint file on disk holds for a restaurant.
OldEntry == [url |-> "old", restaurant_logo |-> "old", items |-> <<>>]

\* The checkpoint directories explored: for a set of restaurants, the files
\* save_checkpoint writes for them.
CheckpointDirs ==
    {[f \in {CheckpointFile(n) : n \in S} |->
          LET n == CHOOSE m \in S : CheckpointFile(m) = f IN n :> OldEntry]
       : S \in SUBSET PipeNames}

\* The outcome of fetch_page (lines 184-217) when fails attempts fail before
\* one succeeds, or all max_retries attempts fail.
FetchResult(mr, fails) ==
    IF ~InRange(0, mr) THEN "None"
    ELSE IF fails < mr THEN "doc"
    ELSE "NetworkException"

FetchOutcomes(mr) == {FetchResult(mr, k) : k \in 0..mr}

Range(seq) == {seq[i] : i \in DOMAIN seq}

\* Keeps the elements of seq that satisfy Test, in order.
RECURSIVE SelectNames(_, _)
SelectNames(seq, keep) ==
    IF seq = <<>> THEN <<>>
    ELSE LET rest == SelectNames(SubSeq(seq, 1, Len(seq) - 1), keep)
             last == seq[Len(seq)]
         IN IF last \in keep THEN Append(rest, last) ELSE rest

\* The key of a repeated assignment moves to the end.
KeysAfterSet_MoveToEnd(keys, key) ==
    Append(SelectSeq(keys, LAMBDA k : k # key), key)

\* d[key] = value on the key order of a dict: a new key goes last, a key
\* already present keeps its place.
KeysAfterSet(keys, key) ==
    IF key \in Range(keys) THEN keys ELSE Append(keys, key)

\* restaurant_scraper.py:51-85: results_by_url[absolute_url] = {name, url} per
\* card, then list(results_by_url.values()).
RECURSIVE CardKeys(_)
CardKeys(cards) ==
    IF cards = <<>> THEN <<>>
    ELSE KeysAfterSet(CardKeys(SubSeq(cards, 1, Len(cards) - 1)),
                      cards[Len(cards)].url)

RECURSIVE CardsByUrl(_)
CardsByUrl(cards) ==
    IF cards = <<>> THEN <<>>
    ELSE DictUpdate(CardsByUrl(SubSeq(cards, 1, Len(cards) - 1)),
                    cards[Len(cards)].url :> cards[Len(cards)])

extract_restaurant_cards(cards) ==
    [i \in 1..Len(CardKeys(cards)) |-> CardsByUrl(cards)[CardKeys(cards)[i]]]

\* main.py:192-197: the explicit name list; None (here {}) keeps all.
RECURSIVE FilterSpecific(_, _)
FilterSpecific(rs, names) ==
    IF rs = <<>> THEN <<>>
    ELSE LET rest == FilterSpecific(SubSeq(rs, 1, Len(rs) - 1), names)
             last == rs[Len(rs)]
         IN IF last.name \in names THEN Append(rest, last) ELSE rest

\* main.py:202-203: restaurants[:max_restaurants]; None (here 0) keeps all.
Prefix(seq, n) == SubSeq(seq, 1, IF n < Len(seq) THEN n ELSE Len(seq))

\* main.py:191-207.
ApplyRestaurantFilters(rs) ==
    LET byName == IF settings.specific_restaurants # {}
                  THEN FilterSpecific(rs, settings.specific_restaurants)
                  ELSE rs
    IN IF settings.max_restaurants # 0
       THEN Prefix(byName, settings.max_restaurants)
       ELSE byName

\* main.py:224-229 for one entry.
LimitItems(entry) ==
    IF settings.max_items_per_restaurant # 0
       /\ Len(entry.items) > settings.max_items_per_restaurant
    THEN [entry EXCEPT !.items = Prefix(@, settings.max_items_per_restaurant)]
    ELSE entry

\* The checkpointed restaurants stay in the pending work.
RemoveCheckpointed_Kept(keys, ckpts) == keys

\* main.py:258-260: del menu_data[restaurant_name] for every checkpointed name.
RemoveCheckpointed(keys, ckpts) ==
    SelectNames(keys, Range(keys) \ DOMAIN ckpts)

\* A dict restricted to the keys listed.
Restrict(d, keys) == [k \in Range(keys) |-> d[k]]

\* save_json(data, filename), src/utils.py:49-75: the file is created or
\* overwritten.  The pipeline never reads an output file back, so a file is
\* recorded by the run that wrote it last.
SaveJson(fs, filename) == DictUpdate(fs, filename :> run)

\* The in-memory state of a run that has not started.
FreshRun ==
    /\ ppc = "start"
    /\ restaurants = <<>>
    /\ menu_keys = <<>>
    /\ menu_data = <<>>
    /\ checkpoints = <<>>
    /\ idx = 0
    /\ processed_items = <<>>
    /\ enriched_data = <<>>
    /\ written = {}
    /\ transformed = FALSE
    /\ fetched = {}
    /\ menu_outcomes = <<>>
    /\ stagesStarted = <<>>
    /\ yielded = <<>>
    /\ completed = {}

pipeFrame == <<fetchVars, saved, loaded, loadedFresh, settings, itemVars,
              pageVars>>

\* main.py:123-127: stage 1 starts; scrape_restaurants constructs its scraper.
StartStage1 ==
    /\ ppc = "start"
    /\ ppc' = "s1"
    /\ stagesStarted' = Append(stagesStarted, 1)
    /\ UNCHANGED <<pipeFrame, menu_outcomes, ckptDir, run, 
                   restaurants, menu_keys, menu_data,
                   checkpoints, idx, processed_items, enriched_data, files,
                   written, transformed, fetched, yielded, completed,
                   prevCompleted>>

\* main.py:179-207 with restaurant_scraper.py:87-100: the listing page is
\* fetched, the cards are extracted and the filters applied.  NetworkException
\* is not caught before run_full_pipeline (main.py:175-177: sys.exit(1)); on
\* None the extractor's error handler yields [].
Stage1Scrape ==
    /\ ppc = "s1"
    /\ fetched' = fetched \cup {[stage |-> 1, owner |-> <<>>]}
    /\ \E r \in FetchOutcomes(max_retries) :
          CASE r = "NetworkException" ->
                  /\ ppc' = "exited"
                  /\ UNCHANGED <<restaurants, yielded>>
            [] r = "None" ->
                  /\ ppc' = "s1_done"
                  /\ restaurants' = ApplyRestaurantFilters(<<>>)
                  /\ yielded' = Append(yielded, "empty")
            [] r = "doc" ->
                  \E cards \in Listings :
                     /\ ppc' = "s1_done"
                     /\ restaurants' =
                           ApplyRestaurantFilters(extract_restaurant_cards(cards))
                     /\ yielded' = Append(yielded,
                           IF restaurants' = <<>> THEN "empty" ELSE "nonempty")
    /\ UNCHANGED <<pipeFrame, menu_outcomes, ckptDir, run, 
                   menu_keys, menu_data, checkpoints,
                   idx, processed_items, enriched_data, files, written,
                   transformed, stagesStarted, completed, prevCompleted>>

\* Stage 1's result saved although it is empty.
AfterStage1_NoAbort ==
    /\ ppc = "s1_done"
    /\ files' = SaveJson(files, "01_restaurants.json")
    /\ written' = written \cup {"01_restaurants.json"}
    /\ ppc' = "s2"
    /\ idx' = 1
    /\ stagesStarted' = Append(stagesStarted, 2)
    /\ UNCHANGED <<pipeFrame, menu_outcomes, ckptDir, run, 
                   restaurants, menu_keys, menu_data,
                   checkpoints, processed_items, enriched_data, transformed,
                   fetched, yielded, completed, prevCompleted>>

\* Stage 2 started without saving stage 1's result.
AfterStage1_NoSave ==
    /\ ppc = "s1_done"
    /\ IF restaurants = <<>>
       THEN /\ ppc' = "aborted"
            /\ UNCHANGED <<idx, stagesStarted>>
       ELSE /\ ppc' = "s2"
            /\ idx' = 1
            /\ stagesStarted' = Append(stagesStarted, 2)
    /\ UNCHANGED <<pipeFrame, menu_outcomes, ckptDir, run, 
                   restaurants, menu_keys, menu_data,
                   checkpoints, processed_items, enriched_data, transformed,
                   fetched, yielded, completed, prevCompleted, files, written>>

\* main.py:129-138: abort on an empty list, else save 01_restaurants.json and
\* start stage 2.
AfterStage1 ==
    /\ ppc = "s1_done"
    /\ IF restaurants = <<>>
       THEN /\ ppc' = "aborted"
            /\ UNCHANGED <<files, written, idx, stagesStarted>>
       ELSE /\ files' = SaveJson(files, "01_restaurants.json")
            /\ written' = written \cup {"01_restaurants.json"}
            /\ ppc' = "s2"
            /\ idx' = 1
            /\ stagesStarted' = Append(stagesStarted, 2)
    /\ UNCHANGED <<pipeFrame, menu_outcomes, ckptDir, run, 
                   restaurants, menu_keys, menu_data,
                   checkpoints, processed_items, enriched_data, transformed,
                   fetched, yielded, completed, prevCompleted>>

\* menu_item_scraper.py:143-147: the entry extract_menu_items builds for the
\* i-th item of a restaurant page.
MenuItem(i) == [name |-> <<"item", i>>, url |-> i, category |-> "Uncategorized"]

\* The placeholder without the restaurant's url.
ErrorPlaceholder_NoUrl(url, e) ==
    [url |-> "", restaurant_logo |-> "", items |-> <<>>, error |-> e]

\* menu_item_scraper.py:234-241: the entry stored when scraping a restaurant
\* raised e.
ErrorPlaceholder(url, e) ==
    [url |-> url, restaurant_logo |-> "", items |-> <<>>, error |-> e]

\* menu_item_scraper.py:210-241: one iteration of MenuItemScraper.scrape.  The
\* restaurant's page is fetched (scrape_restaurant_menu, 171-193) and holds n
\* items; a failure is caught and leaves a placeholder.
Stage2Restaurant ==
    /\ ppc = "s2"
    /\ idx <= Len(restaurants)
    /\ LET name == restaurants[idx].name
           url == restaurants[idx].url
       IN IF name = <<>> \/ url = ""
          THEN /\ menu_outcomes' = Append(menu_outcomes, "skipped")
               /\ UNCHANGED <<menu_keys, menu_data, fetched>>
          ELSE /\ fetched' = fetched \cup {[stage |-> 2, owner |-> name]}
               /\ menu_keys' = KeysAfterSet(menu_keys, name)
               /\ \E r \in FetchOutcomes(max_retries) :
                     /\ menu_outcomes' = Append(menu_outcomes, r)
                     /\ CASE r = "doc" ->
                              \E n \in 0..MaxItems :
                                 menu_data' = DictUpdate(menu_data, name :>
                                    [url |-> url, restaurant_logo |-> "logo",
                                     items |-> [i \in 1..n |-> MenuItem(i)]])
                         [] r = "None" ->
                              menu_data' = DictUpdate(menu_data, name :>
                                 [url |-> url, restaurant_logo |-> "",
                                  items |-> <<>>])
                         [] r = "NetworkException" ->
                              menu_data' = DictUpdate(menu_data, name :>
                                 ErrorPlaceholder(url, r))
    /\ idx' = idx + 1
    /\ UNCHANGED <<pipeFrame, ckptDir, run, ppc, restaurants, checkpoints,
                   processed_items, enriched_data, files, written, transformed,
                   stagesStarted, yielded, completed, prevCompleted>>

\* menu_item_scraper.py:243-244 and main.py:224-237: the loop has ended; the
\* item cap is applied.
Stage2Finish ==
    /\ ppc = "s2"
    /\ idx > Len(restaurants)
    /\ menu_data' = [k \in DOMAIN menu_data |-> LimitItems(menu_data[k])]
    /\ yielded' = Append(yielded,
                         IF menu_keys = <<>> THEN "empty" ELSE "nonempty")
    /\ ppc' = "s2_done"
    /\ UNCHANGED <<pipeFrame, menu_outcomes, ckptDir, run, 
                   restaurants, menu_keys, checkpoints,
                   idx, processed_items, enriched_data, files, written,
                   transformed, fetched, stagesStarted, completed,
                   prevCompleted>>

\* main.py:140-149: abort on an empty mapping, else save 02_menu_items.json
\* and start stage 3.
AfterStage2 ==
    /\ ppc = "s2_done"
    /\ IF menu_keys = <<>>
       THEN /\ ppc' = "aborted"
            /\ UNCHANGED <<files, written, stagesStarted>>
       ELSE /\ files' = SaveJson(files, "02_menu_items.json")
            /\ written' = written \cup {"02_menu_items.json"}
            /\ ppc' = "s3_resume"
            /\ stagesStarted' = Append(stagesStarted, 3)
    /\ UNCHANGED <<pipeFrame, menu_outcomes, ckptDir, run, 
                   restaurants, menu_keys, menu_data,
                   checkpoints, idx, processed_items, enriched_data,
                   transformed, fetched, yielded, completed, prevCompleted>>

\* main.py:249-262: with resume enabled the checkpoints are loaded and the
\* checkpointed restaurants are deleted from menu_data.
Stage3Resume ==
    /\ ppc = "s3_resume"
    /\ IF settings.resume_from_checkpoint
       THEN \E order \in GlobOrders(ckptDir) :
               /\ checkpoints' = MergeFiles(ckptDir, order)
               /\ menu_keys' = IF DOMAIN checkpoints' # {}
                               THEN RemoveCheckpointed(menu_keys, checkpoints')
                               ELSE menu_keys
       ELSE UNCHANGED <<checkpoints, menu_keys>>
    /\ menu_data' = Restrict(menu_data, menu_keys')
    /\ ppc' = "s3"
    /\ idx' = 1
    /\ processed_items' = <<>>
    /\ enriched_data' = <<>>
    /\ UNCHANGED <<pipeFrame, menu_outcomes, ckptDir, run, 
                   restaurants, files, written,
                   transformed, fetched, stagesStarted, yielded, completed,
                   prevCompleted>>

\* nutrition_scraper.py:432-446: one item of the restaurant under way.  Its
\* pages are fetched; when a fetch raises, the error handler wrapped around
\* process_menu_item (line 323) returns {}; otherwise the item comes back with
\* its nutritional_values (from empty extractions when the page is None).
ProcessItem ==
    /\ ppc = "s3"
    /\ idx <= Len(menu_keys)
    /\ LET name == menu_keys[idx]
           items == menu_data[name].items
       IN /\ Len(processed_items) < Len(items)
          /\ fetched' = fetched \cup {[stage |-> 3, owner |-> name]}
          /\ LET menu_item == items[Len(processed_items) + 1] IN
             \E r \in FetchOutcomes(max_retries) :
                processed_items' = Append(processed_items,
                   IF r = "NetworkException"
                   THEN <<>>
                   ELSE DictUpdate(menu_item,
                                   "nutritional_values" :> "scraped"))
    /\ UNCHANGED <<pipeFrame, menu_outcomes, ckptDir, run, ppc,
                   restaurants, menu_keys,
                   menu_data, checkpoints, idx, enriched_data, files, written,
                   transformed, stagesStarted, yielded, completed,
                   prevCompleted>>

\* Every field of the input entry is carried over, with the items replaced.
EnrichedEntry_Carried(info, items) == DictUpdate(info, [items |-> items])

\* nutrition_scraper.py:448-452: the entry stored for a restaurant.
EnrichedEntry(info, items) ==
    [url |-> info.url, restaurant_logo |-> info.restaurant_logo,
     items |-> items]

\* nutrition_scraper.py:448-457: the restaurant's entry is stored in
\* enriched_data and the loop moves on.
FinishRestaurant ==
    /\ ppc = "s3"
    /\ idx <= Len(menu_keys)
    /\ LET name == menu_keys[idx]
           info == menu_data[name]
       IN /\ Len(processed_items) = Len(info.items)
          /\ enriched_data' = DictUpdate(enriched_data, name :>
                EnrichedEntry(info, processed_items))
          /\ completed' = completed \cup {name}
    /\ processed_items' = <<>>
    /\ idx' = idx + 1
    /\ UNCHANGED <<pipeFrame, menu_outcomes, ckptDir, run, ppc,
                   restaurants, menu_keys,
                   menu_data, checkpoints, files, written, transformed, fetched,
                   stagesStarted, yielded, prevCompleted>>

\* The checkpoint's value is kept for a name of both mappings.
MergeWithCheckpoints_CheckpointWins(resume, ckpts, enriched) ==
    IF resume THEN DictUpdate(enriched, ckpts) ELSE enriched

\* src/main.py:267-269: {**checkpoints, **enriched_data} when
\* resume_from_checkpoint is set.
MergeWithCheckpoints(resume, ckpts, enriched) ==
    IF resume THEN DictUpdate(ckpts, enriched) ELSE enriched

\* nutrition_scraper.py:459 and main.py:267-279: the scraper returns and the
\* checkpoints are merged with its result.
Stage3Merge ==
    /\ ppc = "s3"
    /\ idx > Len(menu_keys)
    /\ enriched_data' = MergeWithCheckpoints(settings.resume_from_checkpoint,
                                             checkpoints, enriched_data)
    /\ yielded' = Append(yielded,
                         IF DOMAIN enriched_data' = {} THEN "empty" ELSE "nonempty")
    /\ ppc' = "s3_done"
    /\ UNCHANGED <<pipeFrame, menu_outcomes, ckptDir, run, 
                   restaurants, menu_keys, menu_data,
                   checkpoints, idx, processed_items, files, written,
                   transformed, fetched, stagesStarted, completed,
                   prevCompleted>>

\* main.py:151-160: abort on an empty mapping, else save
\* 03_enriched_data.json; stage 4 follows when normalize_data is set.
AfterStage3 ==
    /\ ppc = "s3_done"
    /\ IF DOMAIN enriched_data = {}
       THEN /\ ppc' = "aborted"
            /\ UNCHANGED <<files, written, stagesStarted>>
       ELSE /\ files' = SaveJson(files, "03_enriched_data.json")
            /\ written' = written \cup {"03_enriched_data.json"}
            /\ IF settings.normalize_data
               THEN /\ ppc' = "s4"
                    /\ stagesStarted' = Append(stagesStarted, 4)
               ELSE /\ ppc' = "done"
                    /\ UNCHANGED stagesStarted
    /\ UNCHANGED <<pipeFrame, menu_outcomes, ckptDir, run, 
                   restaurants, menu_keys, menu_data,
                   checkpoints, idx, processed_items, enriched_data,
                   transformed, fetched, yielded, completed, prevCompleted>>

\* src/utils.py:179-181: the files save_collections writes, in this order.
\* Their names carry the time stamp of the run, so that no run overwrites
\* the collection files of another: they are recorded in written only.
CollectionFiles ==
    <<"restaurant_brands.json", "menu_items.json", "menu_item_variations.json">>

\* main.py:161, 281-295: the transform is invoked; it saves the collections,
\* or it raises and the run ends in sys.exit(1).
Transform ==
    /\ ppc = "s4"
    /\ transformed' = TRUE
    /\ \/ /\ written' = written \cup Range(CollectionFiles)
          /\ ppc' = "done"
       \/ /\ ppc' = "exited"
          /\ UNCHANGED written
    /\ UNCHANGED <<pipeFrame, menu_outcomes, ckptDir, run,
                   restaurants, menu_keys, menu_data,
                   checkpoints, idx, processed_items, enriched_data, files,
                   fetched, stagesStarted, yielded, completed, prevCompleted>>

\* main.py:133-155: the output file of the scraping stage k.
StageFile(k) ==
    CASE k = 1 -> "01_restaurants.json"
      [] k = 2 -> "02_menu_items.json"
      [] k = 3 -> "03_enriched_data.json"

\* The scraping stage that is running at position pc.
StageAt(pc) ==
    CASE pc = "s1" -> 1
      [] pc = "s2" -> 2
      [] pc \in {"s3_resume", "s3"} -> 3

\* The interrupted stage's output file is saved on the way out.
Interrupt_SavesOutput ==
    /\ ppc \in {"s1", "s2", "s3_resume", "s3", "s4"}
    /\ ppc' = "exited"
    /\ IF ppc = "s4"
       THEN /\ \E n \in 0..Len(CollectionFiles) :
                  written' = written \cup {CollectionFiles[i] : i \in 1..n}
            /\ UNCHANGED files
       ELSE /\ files' = SaveJson(files, StageFile(StageAt(ppc)))
            /\ written' = written \cup {StageFile(StageAt(ppc))}
    /\ UNCHANGED <<pipeFrame, menu_outcomes, ckptDir, run,
                   restaurants, menu_keys, menu_data,
                   checkpoints, idx, processed_items, enriched_data,
                   transformed, fetched, stagesStarted, yielded,
                   completed, prevCompleted>>

\* main.py:172-174: KeyboardInterrupt while a stage is running; no handler
\* between the stage and run_full_pipeline catches it (they catch Exception).
\* A scraping stage has written nothing of its own when it is interrupted;
\* the transform stage has saved the first n of its collection files
\* (main.py:289-293).
Interrupt ==
    /\ ppc \in {"s1", "s2", "s3_resume", "s3", "s4"}
    /\ ppc' = "exited"
    /\ IF ppc = "s4"
       THEN \E n \in 0..Len(CollectionFiles) :
               written' = written \cup {CollectionFiles[i] : i \in 1..n}
       ELSE UNCHANGED written
    /\ UNCHANGED <<pipeFrame, menu_outcomes, ckptDir, run,
                   restaurants, menu_keys, menu_data,
                   checkpoints, idx, processed_items, enriched_data, files,
                   transformed, fetched, stagesStarted, yielded,
                   completed, prevCompleted>>

\* main.py:298-310: the program is started again on the same disk.
NextRun ==
    /\ ppc \in {"done", "aborted", "exited"}
    /\ run < MaxRuns
    /\ run' = run + 1
    /\ prevCompleted' = prevCompleted \cup completed
    /\ ppc' = "start"
    /\ restaurants' = <<>>
    /\ menu_keys' = <<>>
    /\ menu_data' = <<>>
    /\ checkpoints' = <<>>
    /\ idx' = 0
    /\ processed_items' = <<>>
    /\ enriched_data' = <<>>
    /\ written' = {}
    /\ transformed' = FALSE
    /\ fetched' = {}
    /\ menu_outcomes' = <<>>
    /\ stagesStarted' = <<>>
    /\ yielded' = <<>>
    /\ completed' = {}
    /\ UNCHANGED <<pipeFrame, ckptDir, files>>

PipeNext ==
    \/ StartStage1
    \/ Stage1Scrape
    \/ AfterStage1
    \/ Stage2Restaurant
    \/ Stage2Finish
    \/ AfterStage2
    \/ Stage3Resume
    \/ ProcessItem
    \/ FinishRestaurant
    \/ Stage3Merge
    \/ AfterStage3
    \/ Transform
    \/ Interrupt
    \/ NextRun

\* =============================================================== menu item
\* One item of NutritionScraper.scrape: process_menu_item with the error
\* handler wrapped around it, and the append in scrape.  A text is the
\* sequence of its words, <<>> the empty text; an address is the sequence of
\* its parts, a relative one starts with "/".

\* Largest number of anchors in the size selector of an item page.
MaxOptions == 2

\* ScraperSettings.base_url (config/config.py:17).
BaseUrl == "https://fastfoodnutrition.org"

\* urljoin(base_url, href) for a path of the site or an absolute address.
Urljoin(base, href) ==
    IF href = <<>> THEN <<base>>
    ELSE IF href[1] = "/" THEN <<base>> \o href
    ELSE href

\* The items explored: with and without a name; with a url, which is the
\* address the selector option "/small" points at, with the url "" and
\* without the key url.
ItemNames == {<<>>, <<"Fries">>}
ItemUrls == {<<>>, <<BaseUrl, "/", "small">>}
Items ==
    [name : ItemNames, url : ItemUrls, category : {"Sides"}]
    \cup [name : ItemNames, category : {"Sides"}]

\* nutrition_scraper.py:336: item_url = item.get("url", "").
item_url == IF "url" \in DOMAIN item THEN item.url ELSE <<>>

\* No item is skipped.
SkipsItem_Never(url) == FALSE

\* nutrition_scraper.py:339: if not item_url.
SkipsItem(url) == url = <<>>

\* The size selectors explored: none, or div.dropdown-menu with up to
\* MaxOptions anchors, each with its display text and its href.
OptionTexts == {<<>>, <<"Small">>, <<"Large">>}
OptionHrefs == {<<"/", "small">>, <<BaseUrl, "/", "small">>, <<"/", "large">>}
NoDropdown == [present |-> FALSE, anchors |-> <<>>]
Dropdowns ==
    {NoDropdown} \cup
    [present : {TRUE},
     anchors : UNION {[1..n -> [text : OptionTexts, href : OptionHrefs]] :
                         n \in 0..MaxOptions}]

\* ScrapedAllergens() (config/models.py:83-88).
EmptyAllergens ==
    [contains |-> <<>>, does_not_contain |-> <<>>, unknown |-> <<>>,
     allergy_information |-> <<>>]

\* What extract_allergens can return for the page at url: nothing, the
\* information paragraph alone, or a list under one of two headers.
AllergenResults(url) ==
    {EmptyAllergens,
     [EmptyAllergens EXCEPT !.allergy_information = <<"allergy text of">> \o url],
     [EmptyAllergens EXCEPT !.contains = <<"contains of">> \o url],
     [EmptyAllergens EXCEPT !.unknown = <<"unknown of">> \o url,
                            !.allergy_information = <<"allergy text of">> \o url]}

\* What the extractors of lines 170-187, 58-168, 232-284 give for the page at
\* url: a title or none, an allergen result, ingredients or none, the page's
\* nutrition table and image.
PageContents(url) ==
    [title : {<<>>, <<"title of">> \o url},
     allergens : AllergenResults(url),
     ingredients : {<<>>, <<"ingredients of">> \o url},
     nutrition : {<<"nutrition of">> \o url},
     image_url : {<<"image of">> \o url}]

\* The extractors' defaults: what they give when fetch_page returned None.
NonePage ==
    [title |-> <<>>, allergens |-> EmptyAllergens, ingredients |-> <<>>,
     nutrition |-> <<>>, image_url |-> <<>>]

PagesFetched(r, url) == IF r = "None" THEN {NonePage} ELSE PageContents(url)

\* The entry of a URL seen before is kept in place of the first one.
RECURSIVE UniqueByUrl_KeepLast(_)
UniqueByUrl_KeepLast(seq) ==
    IF seq = <<>> THEN <<>>
    ELSE LET rest == UniqueByUrl_KeepLast(SubSeq(seq, 1, Len(seq) - 1))
             last == seq[Len(seq)]
         IN IF \E i \in DOMAIN rest : rest[i].url = last.url
            THEN [i \in DOMAIN rest |->
                     IF rest[i].url = last.url THEN last ELSE rest[i]]
            ELSE Append(rest, last)

\* nutrition_scraper.py:221-227 and menu_item_scraper.py:154-160: an entry is
\* kept unless its url was seen before.
RECURSIVE UniqueByUrl(_)
UniqueByUrl(seq) ==
    IF seq = <<>> THEN <<>>
    ELSE LET rest == UniqueByUrl(SubSeq(seq, 1, Len(seq) - 1))
             last == seq[Len(seq)]
         IN IF \E i \in DOMAIN rest : rest[i].url = last.url
            THEN rest
            ELSE Append(rest, last)

\* The options in reverse order.
extract_dropdown_options_Reversed(dd) ==
    IF ~dd.present THEN <<>>
    ELSE LET opts == UniqueByUrl([i \in DOMAIN dd.anchors |->
                         [title |-> dd.anchors[i].text,
                          url |-> Urljoin(BaseUrl, dd.anchors[i].href)]])
         IN [i \in DOMAIN opts |-> opts[Len(opts) + 1 - i]]

\* nutrition_scraper.py:189-230; [] as well when the document is None (the
\* error handler's default).
extract_dropdown_options(dd) ==
    IF ~dd.present THEN <<>>
    ELSE UniqueByUrl([i \in DOMAIN dd.anchors |->
                         [title |-> dd.anchors[i].text,
                          url |-> Urljoin(BaseUrl, dd.anchors[i].href)]])

\* The page title is preferred to the label given.
ServingLabel_TitleFirst(size_label, title) ==
    IF title # <<>> THEN title ELSE size_label

\* nutrition_scraper.py:316: size_label or title.
ServingLabel(size_label, title) ==
    IF size_label # <<>> THEN size_label ELSE title

\* nutrition_scraper.py:303-321 after the fetch: title = extract_title(doc) or
\* fallback_title, then the serving size and the page's other data.
extract_item_nutrition_data(page, size_label, fallback_title) ==
    LET title == IF page.title # <<>> THEN page.title ELSE fallback_title
    IN [serving_size |-> [size_label |-> ServingLabel(size_label, title),
                          nutrition |-> page.nutrition,
                          image_url |-> page.image_url],
        allergens |-> page.allergens,
        ingredients |-> page.ingredients]

\* A result with an allergy_information text counts as well.
HasAllergenLists_OrInformation(a) ==
    \/ a.contains # <<>> \/ a.does_not_contain # <<>> \/ a.unknown # <<>>
    \/ a.allergy_information # <<>>

\* nutrition_scraper.py:372.
HasAllergenLists(a) ==
    a.contains # <<>> \/ a.does_not_contain # <<>> \/ a.unknown # <<>>

\* The first variant with allergen lists is kept.
MergeAllergens_FirstWins(aggregated, allergens) ==
    IF HasAllergenLists(aggregated) THEN aggregated ELSE allergens

\* nutrition_scraper.py:372-373.
MergeAllergens(aggregated, allergens) ==
    IF HasAllergenLists(allergens) THEN allergens ELSE aggregated

\* nutrition_scraper.py:374-375.
MergeIngredients(aggregated, ingredients) ==
    IF ingredients # <<>> THEN ingredients ELSE aggregated

\* The serving dict is put in front of the list.
AppendServing_Front(sizes, serving_dict) == <<serving_dict>> \o sizes

\* nutrition_scraper.py:369: serving_sizes.append(serving_dict).
AppendServing(sizes, serving_dict) == Append(sizes, serving_dict)

\* No call of process_menu_item under way.
ItemIdle ==
    /\ dropdown = NoDropdown
    /\ options = <<>>
    /\ opt_pos = 0
    /\ serving_sizes = <<>>
    /\ aggregated_allergens = EmptyAllergens
    /\ aggregated_ingredients = <<>>
    /\ variant_pages = <<>>
    /\ failure = ""
    /\ processed_item = <<>>
    /\ emitted = <<>>
    /\ item_fetches = <<>>

itemFrame == <<fetchVars, ckptVars, pipeVars, pageVars, item>>

\* nutrition_scraper.py:336-342: process_menu_item is entered; an item
\* without url is returned as it is.
ProcessMenuItem ==
    /\ ipc = "call"
    /\ IF SkipsItem(item_url)
       THEN /\ processed_item' = item
            /\ ipc' = "returned"
       ELSE /\ ipc' = "default"
            /\ UNCHANGED processed_item
    /\ UNCHANGED <<itemFrame, dropdown, options, opt_pos, serving_sizes,
                   aggregated_allergens, aggregated_ingredients, variant_pages,
                   failure, emitted, item_fetches>>

\* nutrition_scraper.py:344-355: the default page is fetched and searched for
\* a size selector.
FetchDefaultPage ==
    /\ ipc = "default"
    /\ \E r \in FetchOutcomes(max_retries) :
          /\ item_fetches' = Append(item_fetches, [url |-> item_url, result |-> r])
          /\ IF r = "NetworkException"
             THEN /\ failure' = r
                  /\ ipc' = "raising"
                  /\ UNCHANGED <<dropdown, options, opt_pos>>
             ELSE \E dd \in IF r = "None" THEN {NoDropdown} ELSE Dropdowns :
                     /\ dropdown' = dd
                     /\ options' = extract_dropdown_options(dd)
                     /\ opt_pos' = 1
                     /\ ipc' = IF options' # <<>> THEN "options" ELSE "single"
                     /\ UNCHANGED failure
    /\ UNCHANGED <<itemFrame, serving_sizes, aggregated_allergens,
                   aggregated_ingredients, variant_pages, processed_item,
                   emitted>>

\* nutrition_scraper.py:356-375: one turn of the loop over the options.
ProcessOption ==
    /\ ipc = "options"
    /\ opt_pos <= Len(options)
    /\ LET opt == options[opt_pos] IN
       \E r \in FetchOutcomes(max_retries) :
          /\ item_fetches' = Append(item_fetches, [url |-> opt.url, result |-> r])
          /\ IF r = "NetworkException"
             THEN /\ failure' = r
                  /\ ipc' = "raising"
                  /\ UNCHANGED <<opt_pos, serving_sizes, aggregated_allergens,
                                 aggregated_ingredients, variant_pages>>
             ELSE \E page \in PagesFetched(r, opt.url) :
                     LET data == extract_item_nutrition_data(page, opt.title,
                                                             item.name)
                     IN /\ serving_sizes' =
                              AppendServing(serving_sizes, data.serving_size)
                        /\ aggregated_allergens' =
                              MergeAllergens(aggregated_allergens, data.allergens)
                        /\ aggregated_ingredients' =
                              MergeIngredients(aggregated_ingredients,
                                               data.ingredients)
                        /\ variant_pages' = Append(variant_pages,
                              [url |-> opt.url, page |-> page])
                        /\ opt_pos' = opt_pos + 1
                        /\ UNCHANGED <<failure, ipc>>
    /\ UNCHANGED <<itemFrame, dropdown, options, processed_item, emitted>>

\* nutrition_scraper.py:377-380, 400-403: the loop has ended; the item gets
\* its serving sizes and the aggregated allergens and ingredients.
FinishOptions ==
    /\ ipc = "options"
    /\ opt_pos > Len(options)
    /\ processed_item' = DictUpdate(item,
          [nutritional_values |-> [serving_sizes |-> serving_sizes],
           allergens |-> aggregated_allergens,
           ingredients |-> aggregated_ingredients])
    /\ ipc' = "returned"
    /\ UNCHANGED <<itemFrame, dropdown, options, opt_pos, serving_sizes,
                   aggregated_allergens, aggregated_ingredients, variant_pages,
                   failure, emitted, item_fetches>>

\* nutrition_scraper.py:382-403: no option; the item's page is fetched again
\* and gives the single serving size "1 serving".
ProcessSingle ==
    /\ ipc = "single"
    /\ \E r \in FetchOutcomes(max_retries) :
          /\ item_fetches' = Append(item_fetches, [url |-> item_url, result |-> r])
          /\ IF r = "NetworkException"
             THEN /\ failure' = r
                  /\ ipc' = "raising"
                  /\ UNCHANGED <<variant_pages, processed_item>>
             ELSE \E page \in PagesFetched(r, item_url) :
                     LET data == extract_item_nutrition_data(page, <<"1 serving">>,
                                                             item.name)
                     IN /\ processed_item' = DictUpdate(item,
                              [nutritional_values |->
                                  [serving_sizes |-> <<data.serving_size>>],
                               allergens |-> data.allergens,
                               ingredients |-> data.ingredients])
                        /\ variant_pages' = Append(variant_pages,
                              [url |-> item_url, page |-> page])
                        /\ ipc' = "returned"
                        /\ UNCHANGED failure
    /\ UNCHANGED <<itemFrame, dropdown, options, opt_pos, serving_sizes,
                   aggregated_allergens, aggregated_ingredients, emitted>>

\* base_scraper.py:285-291 with nutrition_scraper.py:323: the exception
\* raised in process_menu_item is caught by the wrapper of
\* with_error_handling(default_return={}), which returns {}.
ErrorHandler ==
    /\ ipc = "raising"
    /\ processed_item' = <<>>
    /\ ipc' = "returned"
    /\ UNCHANGED <<itemFrame, dropdown, options, opt_pos, serving_sizes,
                   aggregated_allergens, aggregated_ingredients, variant_pages,
                   failure, emitted, item_fetches>>

\* nutrition_scraper.py:437-446: scrape appends what process_menu_item
\* returned; its except branch would append the item with empty serving sizes
\* and the message of an exception that escaped the call ("escaped").
AppendProcessedItem ==
    /\ ipc \in {"returned", "escaped"}
    /\ emitted' = Append(emitted,
          IF ipc = "escaped"
          THEN DictUpdate(item,
                  [nutritional_values |-> [serving_sizes |-> <<>>],
                   allergens |-> <<>>, error |-> failure])
          ELSE processed_item)
    /\ ipc' = "appended"
    /\ UNCHANGED <<itemFrame, dropdown, options, opt_pos, serving_sizes,
                   aggregated_allergens, aggregated_ingredients, variant_pages,
                   failure, processed_item, item_fetches>>

ItemNext ==
    \/ ProcessMenuItem
    \/ FetchDefaultPage
    \/ ProcessOption
    \/ FinishOptions
    \/ ProcessSingle
    \/ ErrorHandler
    \/ AppendProcessedItem

\* ============================================================== extractors
\* The extractors that turn one parsed page into data.  A page is given by
\* the parts the extractor reads, in document order.

\* Largest number of restaurant cards on a listing page handed to
\* extract_restaurant_cards.
MaxRawCards == 3
\* Largest number of item anchors on a restaurant page.
MaxAnchors == 3
\* Largest number of rows of a nutrition table.
MaxRows == 2

\* str.strip(chars): the leading and trailing elements in chars are removed.
RECURSIVE LStrip(_, _)
LStrip(text, chars) ==
    IF text # <<>> /\ text[1] \in chars THEN LStrip(Tail(text), chars) ELSE text

RECURSIVE RStrip(_, _)
RStrip(text, chars) ==
    IF text # <<>> /\ text[Len(text)] \in chars
    THEN RStrip(SubSeq(text, 1, Len(text) - 1), chars)
    ELSE text

Strip(text, chars) == RStrip(LStrip(text, chars), chars)

\* ---- restaurant_scraper.py:35-85
\* The labels explored (div.logo_box_text): first_text is the label's first
\* direct text node (<<>> when it has none), text the label's whole text as
\* get_text(" ", strip=True) gives it.
CardLabels ==
    {[present |-> FALSE, first_text |-> <<>>, text |-> <<>>],
     [present |-> TRUE, first_text |-> <<"Subway">>,
      text |-> <<"Subway", " Nutrition">>],
     [present |-> TRUE, first_text |-> <<" ", "KFC", " ">>,
      text |-> <<"KFC", " Nutrition">>],
     [present |-> TRUE, first_text |-> <<>>, text |-> <<"KFC", " Nutrition">>],
     [present |-> TRUE, first_text |-> <<" ">>, text |-> <<"Subway">>],
     [present |-> TRUE, first_text |-> <<>>, text |-> <<>>]}

CardHrefs == {<<"/", "subway">>, <<BaseUrl, "/", "subway">>, <<"/", "kfc">>}

\* The cards explored (.filter_target): with or without an anchor that has an
\* href.
RawCards ==
    [has_anchor : {TRUE}, href : CardHrefs, label : CardLabels]
    \cup [has_anchor : {FALSE}, href : {<<>>},
          label : {[present |-> TRUE, first_text |-> <<"Subway">>,
                    text |-> <<"Subway", " Nutrition">>]}]

\* The listing pages explored: without the container, or with up to
\* MaxRawCards cards in it.
ListingDocuments ==
    {[container |-> FALSE, cards |-> <<>>]} \cup
    [container : {TRUE},
     cards : UNION {[1..n -> RawCards] : n \in 0..MaxRawCards}]

NotNutritionSuffix(word) == word # " Nutrition"

\* Lines 64-75: the name of a card, <<>> for None and for "".
CardName(card) ==
    IF ~card.label.present THEN <<>>
    ELSE IF card.label.first_text # <<>>
         THEN Strip(card.label.first_text, {" "})
    ELSE IF card.label.text # <<>>
         THEN Strip(SelectSeq(card.label.text, NotNutritionSuffix), {" "})
    ELSE <<>>

\* Lines 55-61, 77-82: the {name, url} the loop stores for the cards that have an
\* anchor, a name and a url, in card order.
RECURSIVE CardEntries(_)
CardEntries(cards) ==
    IF cards = <<>> THEN <<>>
    ELSE LET rest == CardEntries(SubSeq(cards, 1, Len(cards) - 1))
             card == cards[Len(cards)]
             absolute_url == Urljoin(BaseUrl, card.href)
         IN IF card.has_anchor /\ CardName(card) # <<>> /\ absolute_url # <<>>
            THEN Append(rest, [name |-> CardName(card), url |-> absolute_url])
            ELSE rest

\* Lines 46-85.
RestaurantCards(doc) ==
    IF ~doc.container THEN <<>>
    ELSE extract_restaurant_cards(CardEntries(doc.cards))

ExtractRestaurantCards ==
    /\ xpc = "cards"
    /\ extracted' = RestaurantCards(document)
    /\ xpc' = "cards_extracted"
    /\ UNCHANGED <<fetchVars, ckptVars, pipeVars, itemVars, document>>

\* ---- menu_item_scraper.py:111-169
\* The item anchors explored, each with the heading of its div.category block
\* (<<>> when the block has none), its first direct text node and whole text,
\* and its href.
MenuHrefs == {<<"/", "big-mac">>, <<BaseUrl, "/", "big-mac">>, <<"/", "fries">>}

MenuAnchors ==
    [heading : {<<>>, <<"Burgers">>}, first_text : {<<" ", "Big Mac">>},
     text : {<<"Big Mac">>}, href : MenuHrefs]
    \cup [heading : {<<>>, <<"Burgers">>}, first_text : {<<>>},
          text : {<<"Fries">>}, href : MenuHrefs]

\* The restaurant pages explored: up to MaxAnchors item anchors in page order.
MenuDocuments ==
    [anchors : UNION {[1..n -> MenuAnchors] : n \in 0..MaxAnchors}]

\* Lines 129-152: the entry appended for one anchor.
MenuEntry(anchor) ==
    [name |-> IF anchor.first_text # <<>>
              THEN Strip(anchor.first_text, {" "})
              ELSE anchor.text,
     url |-> Urljoin(BaseUrl, anchor.href),
     category |-> IF anchor.heading # <<>> THEN anchor.heading
                  ELSE <<"Uncategorized">>]

\* Lines 121-169.
extract_menu_items(doc) ==
    UniqueByUrl([i \in DOMAIN doc.anchors |-> MenuEntry(doc.anchors[i])])

ExtractMenuItems ==
    /\ xpc = "menu"
    /\ extracted' = extract_menu_items(document)
    /\ xpc' = "menu_extracted"
    /\ UNCHANGED <<fetchVars, ckptVars, pipeVars, itemVars, document>>

\* ---- nutrition_scraper.py:42-115
\* A cell text is the sequence of its characters.
KeyVitaminD ==
    <<"V", "i", "t", "a", "m", "i", "n", " ", "D", " ", "(", "m", "c", "g", ")">>
KeyAmountPerServing ==
    <<"A", "m", "o", "u", "n", "t", " ", "P", "e", "r", " ",
      "S", "e", "r", "v", "i", "n", "g">>
KeyDailyValue ==
    <<"%", " ", "D", "a", "i", "l", "y", " ", "V", "a", "l", "u", "e", "*">>
KeyPercentDaily ==
    <<"P", "e", "r", "c", "e", "n", "t", " ", "D", "a", "i", "l", "y", " ",
      "V", "a", "l", "u", "e", "s">>

\* The key and value texts explored, and the text of a percentage cell.
KeyTexts == {<<>>, KeyVitaminD, KeyAmountPerServing, KeyDailyValue, KeyPercentDaily}
ValueTexts ==
    {<<"5", "g">>, <<"0", "g">>, <<>>, <<"?">>, <<"&", "n", "b", "s", "p", ";">>,
     <<"-">>}
PercentText == <<"3", "%">>

\* The data cells explored of a row with a header cell: zero to two cells.
HeaderRowData ==
    {<<>>, <<<<"5", "g">>, PercentText>>} \cup {<<v>> : v \in ValueTexts}

\* The data cells explored of a row without header cell: zero to three cells.
PlainRowData ==
    {<<>>, <<KeyVitaminD>>,
     <<<<>>, <<"5", "g">>, PercentText>>,
     <<KeyVitaminD, <<"5", "g">>, PercentText>>,
     <<KeyVitaminD, <<"-">>, PercentText>>}
    \cup {<<k, v>> : k \in KeyTexts, v \in {<<"5", "g">>, <<"?">>}}

\* The rows explored.
TableRows ==
    [has_header : {TRUE}, header : KeyTexts, data : HeaderRowData]
    \cup [has_header : {FALSE}, header : {<<>>}, data : PlainRowData]

\* The item pages explored: without nutrition table, or with a table of up to
\* MaxRows rows.
TableDocuments ==
    {[table |-> FALSE, rows |-> <<>>]} \cup
    [table : {TRUE}, rows : UNION {[1..n -> TableRows] : n \in 0..MaxRows}]

\* str.lower() on the capitals that occur in the texts explored.
Lower(ch) ==
    CASE ch = "A" -> "a" [] ch = "C" -> "c" [] ch = "D" -> "d"
      [] ch = "M" -> "m" [] ch = "N" -> "n" [] ch = "O" -> "o"
      [] ch = "P" -> "p" [] ch = "S" -> "s" [] ch = "U" -> "u"
      [] ch = "V" -> "v" [] ch = "W" -> "w" [] OTHER -> ch

Lowered(text) == [i \in DOMAIN text |-> Lower(text[i])]

\* str.isalnum() on one lowered character.
IsAlnum(ch) ==
    ch \in {"a", "b", "c", "d", "e", "f", "g", "h", "i", "j", "k", "l", "m",
            "n", "o", "p", "q", "r", "s", "t", "u", "v", "w", "x", "y", "z",
            "0", "1", "2", "3", "4", "5", "6", "7", "8", "9"}

\* Lines 54-55: while "__" in cleaned: cleaned = cleaned.replace("__", "_").
RECURSIVE CollapseUnderscores(_)
CollapseUnderscores(s) ==
    IF Len(s) <= 1 THEN s
    ELSE LET rest == CollapseUnderscores(SubSeq(s, 1, Len(s) - 1))
             last == s[Len(s)]
         IN IF last = "_" /\ rest[Len(rest)] = "_" THEN rest
            ELSE Append(rest, last)

\* Lines 42-56: _to_snake_case.
to_snake_case(text) ==
    LET lowered == Lowered(Strip(text, {" "}))
        cleaned == [i \in DOMAIN lowered |->
                       IF IsAlnum(lowered[i]) THEN lowered[i] ELSE "_"]
    IN Strip(CollapseUnderscores(cleaned), {"_"})

\* str.startswith(prefix).
StartsWith(text, prefix) ==
    Len(text) >= Len(prefix) /\ SubSeq(text, 1, Len(prefix)) = prefix

\* Lines 106-108: the prefixes of the rows that are headers.
HeaderPrefixes ==
    {Lowered(KeyAmountPerServing),
     <<"%", " ", "d", "a", "i", "l", "y", " ", "v", "a", "l", "u", "e">>,
     <<"p", "e", "r", "c", "e", "n", "t", " ", "d", "a", "i", "l", "y">>}

\* Line 110: the values that are placeholders.
Placeholders == {<<>>, <<"?">>, <<"&", "n", "b", "s", "p", ";">>, <<"-">>}

\* The last data cell is taken as the value.
ValueCell_Last(data) == data[Len(data)]

\* Lines 95-103: the value of a row without header cell is its second cell.
ValueCell(data) == data[2]

\* Lines 86-103: key_text and value_text of a row, found = FALSE when they
\* stay None.
RowPair(row) ==
    IF row.has_header /\ row.data # <<>>
    THEN [found |-> TRUE, key |-> row.header, value |-> row.data[1]]
    ELSE IF Len(row.data) >= 2
    THEN [found |-> TRUE, key |-> row.data[1], value |-> ValueCell(row.data)]
    ELSE [found |-> FALSE, key |-> <<>>, value |-> <<>>]

\* Lines 106-110: the row sets an entry.
RowKept(pair) ==
    /\ pair.found
    /\ pair.key # <<>>
    /\ ~\E prefix \in HeaderPrefixes : StartsWith(Lowered(pair.key), prefix)
    /\ pair.value # <<>>
    /\ Strip(pair.value, {" "}) \notin Placeholders

\* Lines 81-112: the loop over the rows.
RECURSIVE NutritionOfRows(_)
NutritionOfRows(rows) ==
    IF rows = <<>> THEN <<>>
    ELSE LET nutrition == NutritionOfRows(SubSeq(rows, 1, Len(rows) - 1))
             pair == RowPair(rows[Len(rows)])
         IN IF RowKept(pair)
            THEN DictUpdate(nutrition,
                    to_snake_case(pair.key) :> Strip(pair.value, {" "}))
            ELSE nutrition

\* Lines 69-115.
extract_nutrition_table(doc) ==
    IF ~doc.table THEN <<>> ELSE NutritionOfRows(doc.rows)

ExtractNutritionTable ==
    /\ xpc = "table"
    /\ extracted' = extract_nutrition_table(document)
    /\ xpc' = "table_extracted"
    /\ UNCHANGED <<fetchVars, ckptVars, pipeVars, itemVars, document>>

\* ------------------------------------------------------------------ merge
\* The merge of scrape_nutrition_data (src/main.py:267-269) as a function of
\* the setting and the two mappings.
MergeCheckpoints ==
    /\ xpc = "merge"
    /\ extracted' = MergeWithCheckpoints(document.resume, document.checkpoints,
                                         document.enriched_data)
    /\ xpc' = "merged"
    /\ UNCHANGED <<fetchVars, ckptVars, pipeVars, itemVars, document>>

\* -------------------------------------------------------------- allergens
\* extract_allergens (nutrition_scraper.py:117-168) applied to the #allergens
\* section of an item page.

\* Largest number of .col-12 columns of an allergens section.
MaxColumns == 2
\* Largest number of paragraphs of an allergens section.
MaxParagraphs == 1

\* The header texts explored, stripped.
Headers ==
    [contains |-> <<"C", "o", "n", "t", "a", "i", "n", "s">>,
     does_not_contain |->
        <<"D", "o", "e", "s", " ", "N", "o", "t", " ",
          "C", "o", "n", "t", "a", "i", "n">>,
     may_contain |-> <<"M", "a", "y", " ", "C", "o", "n", "t", "a", "i", "n">>,
     may_contains |->
        <<"M", "a", "y", " ", "C", "o", "n", "t", "a", "i", "n", "s">>,
     unknown |-> <<"U", "n", "k", "n", "o", "w", "n">>,
     arent_sure |->
        <<"W", "e", " ", "A", "r", "e", "n", "'", "t", " ", "S", "u", "r", "e">>,
     contains_or_unknown |->
        <<"C", "o", "n", "t", "a", "i", "n", "s", " ", "O", "r", " ",
          "U", "n", "k", "n", "o", "w", "n">>]

\* The item pages explored: without #allergens, or with a section of up to
\* MaxColumns columns and up to MaxParagraphs paragraphs.  A column has a
\* strong header and dots (one dot text is empty), a header and no dot, or no
\* header; a paragraph mentions an allergy or not.
AllergenDocuments ==
    {[section |-> FALSE, columns |-> <<>>, paragraphs |-> <<>>]} \cup
    [section : {TRUE},
     columns :
        UNION {[1..n ->
                   [has_header : {TRUE},
                    header : {Headers[k] : k \in DOMAIN Headers},
                    dots : {<<"Milk">>, <<"", "Soy">>}]
                   \cup [has_header : {TRUE}, header : {Headers.contains},
                         dots : {<<>>}]
                   \cup [has_header : {FALSE}, header : {<<>>},
                         dots : {<<"Egg">>}]]
               : n \in 0..MaxColumns},
     paragraphs :
        UNION {[1..n ->
                   {<<"A", "l", "l", "e", "r", "g", "y", " ", "N", "o", "t", "e">>,
                    <<"M", "e", "n", "u">>}]
               : n \in 0..MaxParagraphs}]

\* sub in text, for two strings.
In(sub, text) ==
    \E i \in 1..(Len(text) - Len(sub) + 1) :
        SubSeq(text, i, i + Len(sub) - 1) = sub

\* The strings lines 152-157 and 164 look for.
Word ==
    [contains |-> <<"c", "o", "n", "t", "a", "i", "n", "s">>,
     not |-> <<"n", "o", "t">>,
     may |-> <<"m", "a", "y">>,
     does_not_contain |->
        <<"d", "o", "e", "s", " ", "n", "o", "t", " ",
          "c", "o", "n", "t", "a", "i", "n">>,
     unknown |-> <<"u", "n", "k", "n", "o", "w", "n">>,
     arent_sure |-> <<"a", "r", "e", "n", "'", "t", " ", "s", "u", "r", "e">>,
     allergy |-> <<"a", "l", "l", "e", "r", "g", "y">>,
     allergen |-> <<"a", "l", "l", "e", "r", "g", "e", "n">>]

\* A header with "may" is a contains header as well.
ColumnBucket_MayIsContains(header_text) ==
    IF In(Word.contains, header_text) /\ ~In(Word.not, header_text)
    THEN "contains"
    ELSE IF In(Word.does_not_contain, header_text) THEN "does_not_contain"
    ELSE IF In(Word.unknown, header_text) \/ In(Word.arent_sure, header_text)
    THEN "unknown"
    ELSE "none"

\* Lines 152-158: the field the column's list is assigned to, "none" when no
\* branch of the if/elif chain is taken.
ColumnBucket(header_text) ==
    IF /\ In(Word.contains, header_text)
       /\ ~In(Word.not, header_text)
       /\ ~In(Word.may, header_text)
    THEN "contains"
    ELSE IF In(Word.does_not_contain, header_text) THEN "does_not_contain"
    ELSE IF In(Word.unknown, header_text) \/ In(Word.arent_sure, header_text)
    THEN "unknown"
    ELSE "none"

\* Line 146: a dot counts when its stripped text is not empty.
NonEmptyText(t) == t # ""

\* Lines 139-158: the loop over the columns.
RECURSIVE AllergensOfColumns(_)
AllergensOfColumns(columns) ==
    IF columns = <<>> THEN EmptyAllergens
    ELSE LET before == AllergensOfColumns(SubSeq(columns, 1, Len(columns) - 1))
             col == columns[Len(columns)]
             bucket == ColumnBucket(Lowered(col.header))
         IN IF ~col.has_header \/ bucket = "none" THEN before
            ELSE [before EXCEPT ![bucket] = SelectSeq(col.dots, NonEmptyText)]

\* Lines 160-166: the text of the last paragraph that mentions an allergy.
RECURSIVE AllergyInformation(_)
AllergyInformation(paragraphs) ==
    IF paragraphs = <<>> THEN <<>>
    ELSE LET text == paragraphs[Len(paragraphs)]
         IN IF /\ text # <<>>
               /\ \/ In(Word.allergy, Lowered(text))
                  \/ In(Word.allergen, Lowered(text))
            THEN text
            ELSE AllergyInformation(SubSeq(paragraphs, 1, Len(paragraphs) - 1))

\* Lines 117-168.
extract_allergens(doc) ==
    IF ~doc.section THEN EmptyAllergens
    ELSE [AllergensOfColumns(doc.columns) EXCEPT
             !.allergy_information = AllergyInformation(doc.paragraphs)]

ExtractAllergens ==
    /\ xpc = "allergens"
    /\ extracted' = extract_allergens(document)
    /\ xpc' = "allergens_extracted"
    /\ UNCHANGED <<fetchVars, ckptVars, pipeVars, itemVars, document>>

\* ========================================================= specifications
\* The checkpoint directory and the pipeline while another component is
\* examined: an empty directory, no run started.
CkptParked ==
    /\ ckptDir = <<>>
    /\ saved = <<>>
    /\ loaded = <<>>
    /\ loadedFresh = FALSE

DefaultSettings ==
    [resume_from_checkpoint |-> TRUE, normalize_data |-> TRUE,
     specific_restaurants |-> {}, max_restaurants |-> 0,
     max_items_per_restaurant |-> 0]

PipeParked ==
    /\ settings = DefaultSettings
    /\ run = 1
    /\ files = <<>>
    /\ prevCompleted = {}
    /\ FreshRun

\* No item and no page under way, while another component is examined.
ItemParked ==
    /\ item = [name |-> <<>>, url |-> <<>>, category |-> ""]
    /\ ipc = "parked"
    /\ ItemIdle

PageParked ==
    /\ document = <<>>
    /\ xpc = "parked"
    /\ extracted = <<>>

FetchInit ==
    FetchStart /\ CkptParked /\ PipeParked /\ ItemParked /\ PageParked

SpecFetch == FetchInit /\ [][FetchNext]_vars

CkptInit ==
    FetchParked /\ CkptParked /\ PipeParked /\ ItemParked /\ PageParked

SpecCkpt == CkptInit /\ [][CkptNext]_vars

\* The settings explored (config/config.py:11-44).
SettingsSet ==
    [resume_from_checkpoint : BOOLEAN, normalize_data : BOOLEAN,
     specific_restaurants : {{}, {<<"a">>}}, max_restaurants : {0, 1},
     max_items_per_restaurant : {0}]

PipeInit ==
    /\ max_retries \in {0, MaxRetriesCfg}
    /\ retry_delay = 1
    /\ rate_limit_delay = 1
    /\ FetchIdle
    /\ saved = <<>>
    /\ loaded = <<>>
    /\ loadedFresh = FALSE
    /\ ckptDir \in CheckpointDirs
    /\ settings \in SettingsSet
    /\ run = 1
    /\ files = <<>>
    /\ prevCompleted = {}
    /\ FreshRun
    /\ ItemParked
    /\ PageParked

SpecPipe == PipeInit /\ [][PipeNext]_vars

ItemInit ==
    /\ max_retries \in {0, MaxRetriesCfg}
    /\ retry_delay = 1
    /\ rate_limit_delay = 1
    /\ FetchIdle
    /\ CkptParked
    /\ PipeParked
    /\ PageParked
    /\ item \in Items
    /\ ipc = "call"
    /\ ItemIdle

SpecItem == ItemInit /\ [][ItemNext]_vars

\* extract_restaurant_cards applied to one listing page.
CardsInit ==
    /\ FetchParked /\ CkptParked /\ PipeParked /\ ItemParked
    /\ document \in ListingDocuments
    /\ xpc = "cards"
    /\ extracted = <<>>

CardsNext == ExtractRestaurantCards

SpecCards == CardsInit /\ [][CardsNext]_vars

\* extract_menu_items applied to one restaurant page.
MenuPageInit ==
    /\ FetchParked /\ CkptParked /\ PipeParked /\ ItemParked
    /\ document \in MenuDocuments
    /\ xpc = "menu"
    /\ extracted = <<>>

MenuPageNext == ExtractMenuItems

SpecMenuPage == MenuPageInit /\ [][MenuPageNext]_vars

\* extract_nutrition_table applied to one item page.
TableInit ==
    /\ FetchParked /\ CkptParked /\ PipeParked /\ ItemParked
    /\ document \in TableDocuments
    /\ xpc = "table"
    /\ extracted = <<>>

TableNext == ExtractNutritionTable

SpecTable == TableInit /\ [][TableNext]_vars

\* The merge of scrape_nutrition_data applied to one setting of
\* resume_from_checkpoint, one checkpoint mapping and one mapping returned by
\* the nutrition stage; a mapping holds some of the restaurant names.
MergeInit ==
    /\ FetchParked /\ CkptParked /\ PipeParked /\ ItemParked
    /\ document \in
          [resume : BOOLEAN,
           checkpoints :
              UNION {[S -> {OldEntry,
                            [url |-> "old", restaurant_logo |-> "",
                             items |-> <<>>]}]
                     : S \in SUBSET PipeNames},
           enriched_data :
              UNION {[S -> {[url |-> "new", restaurant_logo |-> "new",
                             items |-> <<>>],
                            [url |-> "new", restaurant_logo |-> "",
                             items |-> <<>>]}]
                     : S \in SUBSET PipeNames}]
    /\ xpc = "merge"
    /\ extracted = <<>>

SpecMerge == MergeInit /\ [][MergeCheckpoints]_vars

\* extract_allergens applied to one item page.
AllergensInit ==
    /\ FetchParked /\ CkptParked /\ PipeParked /\ ItemParked
    /\ document \in AllergenDocuments
    /\ xpc = "allergens"
    /\ extracted = <<>>

SpecAllergens == AllergensInit /\ [][ExtractAllergens]_vars

\* ================================================================= claims
\* ---------------------------------------------------------------- C1
\* C1: a fetch_page call ends either by returning a parsed document or by
\* raising NetworkException, the latter only after max_retries attempts have
\* all failed; it never returns without a document.
C1_ReturnsDocumentOrRaises ==
    /\ fpc = "returned" => result = "doc"
    /\ fpc = "raised" => result = "NetworkException" /\ callFails = max_retries

\* ---------------------------------------------------------------- C2
\* C2: with max_retries >= 1, a call whose first k < max_retries attempts fail
\* and whose next attempt succeeds returns the document and changes the stats
\* by exactly total_retries + k, successful_requests + 1, failed_requests + 0;
\* a call whose max_retries attempts all fail raises NetworkException and
\* changes failed_requests by exactly + 1 and successful_requests by 0.
C2_StatsDelta ==
    /\ (fpc = "returned" /\ result = "doc") =>
          /\ callFails < max_retries
          /\ stats.total_retries = statsAtCall.total_retries + callFails
          /\ stats.successful_requests = statsAtCall.successful_requests + 1
          /\ stats.failed_requests = statsAtCall.failed_requests
    /\ (fpc = "raised") =>
          /\ callFails = max_retries
          /\ result = "NetworkException"
          /\ stats.failed_requests = statsAtCall.failed_requests + 1
          /\ stats.successful_requests = statsAtCall.successful_requests

\* Two failures, then success on the third attempt of three.
C2_Witness ==
    /\ fpc = "returned" /\ result = "doc"
    /\ max_retries = 3 /\ callFails = 2
    /\ stats.total_retries = statsAtCall.total_retries + 2

\* ---------------------------------------------------------------- C3
\* C3: one fetch_page call issues at most max_retries GETs, and once the
\* budget is used up the call has ended: it makes no further attempt.
C3_AttemptBudget ==
    /\ callGets <= max_retries
    /\ callGets = max_retries => fpc \notin {"wait", "get", "backoff"}

\* Three attempts of three have failed and the call has raised.
C3_Witness ==
    /\ fpc = "raised" /\ max_retries = 3 /\ callGets = 3 /\ callFails = 3

\* ---------------------------------------------------------------- C4
\* C4: the first wait() of a RateLimiter returns without sleeping, and every
\* later wait() returns at least min_delay after the previous wait() returned.
C4_WaitSpacing ==
    /\ (last_request_time # None /\ prev_request_time = None) => waitSlept = 0
    /\ prev_request_time # None =>
          last_request_time - prev_request_time >= rate_limit_delay

\* A later wait() that had to sleep, and one that found enough time elapsed.
C4_Witness ==
    /\ prev_request_time # None
    /\ waitSlept > 0
    /\ last_request_time - prev_request_time = rate_limit_delay

\* ---------------------------------------------------------------- C5
\* C5 as claimed: over the whole run any two consecutive GETs are at least
\* rate_limit_delay apart, the last GET of one stage and the first GET of the
\* next stage included.
C5_ProcessWideSpacing ==
    prevGet.time # None => lastGet.time - prevGet.time >= rate_limit_delay

\* C5 as amended: two consecutive GETs issued by the same stage's scraper are
\* at least rate_limit_delay apart.
C5_PerStageSpacing ==
    (prevGet.time # None /\ prevGet.stage = lastGet.stage) =>
        lastGet.time - prevGet.time >= rate_limit_delay

\* Two GETs of stage 3, the second held back by the rate limiter.
C5_Witness ==
    /\ prevGet.time # None
    /\ prevGet.stage = 3 /\ lastGet.stage = 3
    /\ lastGet.time - prevGet.time = rate_limit_delay
    /\ rate_limit_delay = 2

\* ---------------------------------------------------------------- C8
\* C8: after save_checkpoint was called once per name for pairwise distinct
\* restaurant names there is exactly one checkpoint file per name, and
\* load_checkpoints returns a mapping holding every one of the names with the
\* value saved for it.
C8_OneFilePerNameAndLoadReturnsAll ==
    /\ Cardinality(DOMAIN ckptDir) = Cardinality(DOMAIN saved)
    /\ loadedFresh =>
          \A name \in DOMAIN saved :
              name \in DOMAIN loaded /\ loaded[name] = saved[name]

\* ---------------------------------------------------------------- C6
\* C6: in the nutrition stage, once all items of a restaurant R have been
\* processed R's result is persisted as a checkpoint, so that a later run
\* with resume enabled does not fetch R's item pages again.
C6_CheckpointAfterRestaurant ==
    /\ \A R \in completed : \E f \in DOMAIN ckptDir : R \in DOMAIN ckptDir[f]
    /\ settings.resume_from_checkpoint =>
          \A R \in prevCompleted : [stage |-> 3, owner |-> R] \notin fetched

\* ---------------------------------------------------------------- C7
\* C7: with resume enabled, for every restaurant name X of the loaded
\* checkpoint mapping no page of X is fetched during the nutrition stage, and
\* the mapping the stage returns holds the checkpointed value under X.
C7_CheckpointedSkippedAndVerbatim ==
    settings.resume_from_checkpoint =>
        \A X \in DOMAIN checkpoints :
            /\ [stage |-> 3, owner |-> X] \notin fetched
            /\ Len(yielded) = 3 =>
                  X \in DOMAIN enriched_data /\ enriched_data[X] = checkpoints[X]

\* Restaurant a is checkpointed and on the listing; stage 3 has returned
\* after fetching an item page of restaurant b.
C7_Witness ==
    /\ settings.resume_from_checkpoint
    /\ Len(yielded) = 3
    /\ <<"a">> \in DOMAIN checkpoints
    /\ [stage |-> 2, owner |-> <<"a">>] \in fetched
    /\ [stage |-> 3, owner |-> <<"b">>] \in fetched
    /\ enriched_data[<<"a">>] = OldEntry

\* ---------------------------------------------------------------- C9
\* C9: the stages of a run start in the order 1, 2, 3, 4, and each stage's
\* output file is written before the next stage starts and before it fetches:
\* 01_restaurants.json before stage 2, 02_menu_items.json before stage 3,
\* 03_enriched_data.json before the transform is invoked.
C9_StageOrderAndDurability ==
    /\ \A i \in DOMAIN stagesStarted : stagesStarted[i] = i
    /\ Len(stagesStarted) >= 2 => "01_restaurants.json" \in written
    /\ Len(stagesStarted) >= 3 => "02_menu_items.json" \in written
    /\ Len(stagesStarted) >= 4 => "03_enriched_data.json" \in written
    /\ \A f \in fetched :
          /\ f.stage = 2 => "01_restaurants.json" \in written
          /\ f.stage = 3 => "02_menu_items.json" \in written
    /\ transformed => "03_enriched_data.json" \in written

\* A run that went through all four stages and fetched in stages 2 and 3.
C9_Witness ==
    /\ ppc = "done"
    /\ transformed
    /\ stagesStarted = <<1, 2, 3, 4>>
    /\ \E f \in fetched : f.stage = 2
    /\ \E f \in fetched : f.stage = 3

\* ---------------------------------------------------------------- C10
\* C10: when stage 1 yields an empty restaurant list (after filtering) or
\* stage 2 yields an empty menu mapping the run halts: no later stage is
\* started, neither that stage's output file nor a later one is written, and
\* the transform is not invoked.
C10_EmptyResultHalts ==
    /\ (Len(yielded) >= 1 /\ yielded[1] = "empty") =>
          /\ ppc \in {"s1_done", "aborted"}
          /\ stagesStarted = <<1>>
          /\ written = {}
          /\ ~transformed
    /\ (Len(yielded) >= 2 /\ yielded[2] = "empty") =>
          /\ ppc \in {"s2_done", "aborted"}
          /\ stagesStarted = <<1, 2>>
          /\ written = {"01_restaurants.json"}
          /\ ~transformed

\* The listing page was fetched, the name filter left no restaurant, and the
\* run has halted.
C10_Witness ==
    /\ ppc = "aborted"
    /\ yielded = <<"empty">>
    /\ max_retries > 0
    /\ settings.specific_restaurants # {}
    /\ fetched = {[stage |-> 1, owner |-> <<>>]}

\* ---------------------------------------------------------------- C11
\* C11: for every restaurant {name, url} of the list given to the menu stage
\* the mapping the menu stage returns has an entry whose url is that
\* restaurant's url, whether or not its scrape succeeded; and every entry the
\* nutrition stage is given (the menu entries that are not checkpointed) has
\* an entry under the same name in the mapping the nutrition stage returns.
C11_NoRestaurantLost ==
    /\ ppc = "s2_done" =>
          \A i \in DOMAIN restaurants :
              \E k \in DOMAIN menu_data : menu_data[k].url = restaurants[i].url
    /\ ppc = "s3_done" =>
          \A k \in DOMAIN menu_data : k \in DOMAIN enriched_data

\* ---------------------------------------------------------------- C13
\* C13: the item list the nutrition stage stores for a restaurant has the
\* length and the order of the restaurant's input item list, and its i-th
\* item carries the name, url and category of the i-th input item, for every
\* mix of items that succeed and items that fail.
C13_ItemsCarriedInOrder ==
    \A R \in completed :
        LET input == menu_data[R].items
            output == enriched_data[R].items
        IN /\ Len(output) = Len(input)
           /\ \A i \in DOMAIN input :
                 /\ {"name", "url", "category"} \subseteq DOMAIN output[i]
                 /\ output[i].name = input[i].name
                 /\ output[i].url = input[i].url
                 /\ output[i].category = input[i].category

C12_FailedItemEmittedWithError ==
    (ipc = "appended" /\ failure # "") =>
        LET out == emitted[Len(emitted)] IN
           /\ {"nutritional_values", "error"} \subseteq DOMAIN out
           /\ out.nutritional_values.serving_sizes = <<>>
           /\ out.error = failure

\* ---------------------------------------------------------------- C15
\* C15 as claimed: for an item processed with success, a default page
\* without size selector gives exactly one serving variant, labelled
\* "1 serving"; a size selector with n options whose URLs are pairwise
\* distinct gives exactly n variants, in option order, the i-th labelled with
\* the display text of the i-th option.
C15_VariantsFollowOptions ==
    (ipc = "returned" /\ failure = "" /\ item_url # <<>>) =>
        LET sizes == processed_item.nutritional_values.serving_sizes
            anchors == dropdown.anchors
            url(i) == Urljoin(BaseUrl, anchors[i].href)
        IN /\ ~dropdown.present =>
                 Len(sizes) = 1 /\ sizes[1].size_label = <<"1 serving">>
           /\ (/\ dropdown.present
               /\ \A i, j \in DOMAIN anchors : i # j => url(i) # url(j)) =>
                 /\ Len(sizes) = Len(anchors)
                 /\ \A i \in DOMAIN anchors :
                       /\ variant_pages[i].url = url(i)
                       /\ sizes[i].nutrition = variant_pages[i].page.nutrition
                       /\ sizes[i].size_label = anchors[i].text

\* C15 as amended: for an item with a url processed with success, a default
\* page without size selector, or with a selector that has no option, gives
\* exactly one serving variant, labelled "1 serving"; a selector with n >= 1
\* options whose URLs are pairwise distinct gives exactly n variants, in
\* option order (the i-th holds the data of the i-th option's page), and the
\* i-th is labelled with the display text of the i-th option when that text
\* is not empty.
C15_VariantsFollowOptionsWithText ==
    (ipc = "returned" /\ failure = "" /\ item_url # <<>>) =>
        LET sizes == processed_item.nutritional_values.serving_sizes
            anchors == dropdown.anchors
            url(i) == Urljoin(BaseUrl, anchors[i].href)
        IN /\ (~dropdown.present \/ anchors = <<>>) =>
                 Len(sizes) = 1 /\ sizes[1].size_label = <<"1 serving">>
           /\ (/\ dropdown.present
               /\ anchors # <<>>
               /\ \A i, j \in DOMAIN anchors : i # j => url(i) # url(j)) =>
                 /\ Len(sizes) = Len(anchors)
                 /\ \A i \in DOMAIN anchors :
                       /\ variant_pages[i].url = url(i)
                       /\ sizes[i].nutrition = variant_pages[i].page.nutrition
                       /\ anchors[i].text # <<>> =>
                             sizes[i].size_label = anchors[i].text

\* A selector with the options Large and Small, in this order, gave two
\* variants labelled Large and Small.
C15_Witness ==
    /\ ipc = "returned" /\ failure = ""
    /\ Len(dropdown.anchors) = 2
    /\ dropdown.anchors[1].text = <<"Large">>
    /\ dropdown.anchors[2].text = <<"Small">>
    /\ Len(processed_item.nutritional_values.serving_sizes) = 2
    /\ processed_item.nutritional_values.serving_sizes[1].size_label = <<"Large">>
    /\ processed_item.nutritional_values.serving_sizes[2].size_label = <<"Small">>
    /\ variant_pages[1].url = <<BaseUrl, "/", "large">>

\* ---------------------------------------------------------------- C16
\* C16 as claimed: in the output of the nutrition stage every serving variant
\* of an item processed through a size selector has a non-empty size_label,
\* and the label equals the display text of the option the variant was
\* fetched from, for every option text including the empty text.
C16_LabelIsOptionText ==
    (ipc = "appended" /\ failure = "" /\ options # <<>>) =>
        LET sizes == emitted[Len(emitted)].nutritional_values.serving_sizes
        IN \A i \in DOMAIN sizes :
              /\ sizes[i].size_label # <<>>
              /\ sizes[i].size_label = options[i].title

\* C16 as amended: every serving variant of an item processed through a size
\* selector is labelled with the display text of its option when that text is
\* not empty; for an option without text the label is the title of the
\* variant's page, or the item's name when the page has no title, and so is
\* empty only when all three are empty.
C16_LabelFromOptionTextOrTitle ==
    (ipc = "appended" /\ failure = "" /\ options # <<>>) =>
        LET sizes == emitted[Len(emitted)].nutritional_values.serving_sizes
        IN /\ Len(sizes) = Len(options)
           /\ \A i \in DOMAIN sizes :
                 LET text == options[i].title
                     title == variant_pages[i].page.title
                     label == sizes[i].size_label
                 IN /\ text # <<>> => label = text
                    /\ (text = <<>> /\ title # <<>>) => label = title
                    /\ (text = <<>> /\ title = <<>>) => label = item.name
                    /\ label = <<>> <=>
                          (text = <<>> /\ title = <<>> /\ item.name = <<>>)

\* Two options: the first has no text and its page a title, so that the title
\* is the label; the second has a text, which is the label although its page
\* has a title too.
C16_Witness ==
    /\ ipc = "appended" /\ failure = ""
    /\ Len(options) = 2
    /\ options[1].title = <<>>
    /\ options[2].title = <<"Small">>
    /\ variant_pages[1].page.title # <<>>
    /\ variant_pages[2].page.title # <<>>
    /\ emitted[1].nutritional_values.serving_sizes[1].size_label =
          variant_pages[1].page.title
    /\ emitted[1].nutritional_values.serving_sizes[2].size_label = <<"Small">>

C18_OneEntryPerUrlInFirstSeenOrder ==
    xpc = "cards_extracted" =>
        LET cards == document.cards
            NotBlank(text) == \E i \in DOMAIN text : text[i] # " "
            HasName(c) ==
                /\ c.label.present
                /\ IF c.label.first_text # <<>>
                   THEN NotBlank(c.label.first_text)
                   ELSE \E i \in DOMAIN c.label.text :
                           c.label.text[i] \notin {" ", " Nutrition"}
            valid == {i \in DOMAIN cards : cards[i].has_anchor /\ HasName(cards[i])}
            url(i) == Urljoin(BaseUrl, cards[i].href)
            First(u) ==
                CHOOSE i \in valid :
                    url(i) = u /\ \A j \in valid : url(j) = u => i <= j
        IN /\ {extracted[k].url : k \in DOMAIN extracted} = {url(i) : i \in valid}
           /\ \A j, k \in DOMAIN extracted :
                 j < k => First(extracted[j].url) < First(extracted[k].url)

\* Three cards with a name: the first and the third link to the same page,
\* one with a relative and one with an absolute address, the second to
\* another page; the list has the first card's page, then the second's.
C18_Witness ==
    /\ xpc = "cards_extracted"
    /\ Len(document.cards) = 3
    /\ document.cards[1].href = <<"/", "subway">>
    /\ document.cards[2].href = <<"/", "kfc">>
    /\ document.cards[3].href = <<BaseUrl, "/", "subway">>
    /\ Len(extracted) = 2
    /\ extracted[1].url = <<BaseUrl, "/", "subway">>
    /\ extracted[2].url = <<BaseUrl, "/", "kfc">>

\* ---------------------------------------------------------------- C19
\* C19: the list extract_menu_items returns holds at most one entry per item
\* URL over all category blocks of the page, every URL of the page is in it,
\* the entry kept for a URL is its first occurrence on the page, with that
\* occurrence's name and category, and the entries keep their relative page
\* order.
C19_FirstOccurrencePerUrl ==
    xpc = "menu_extracted" =>
        LET anchors == document.anchors
            url(i) == Urljoin(BaseUrl, anchors[i].href)
            First(u) ==
                CHOOSE i \in DOMAIN anchors :
                    url(i) = u /\ \A j \in DOMAIN anchors : url(j) = u => i <= j
            name(i) ==
                IF anchors[i].first_text # <<>>
                THEN Strip(anchors[i].first_text, {" "})
                ELSE anchors[i].text
            category(i) ==
                IF anchors[i].heading = <<>> THEN <<"Uncategorized">>
                ELSE anchors[i].heading
        IN /\ \A j, k \in DOMAIN extracted :
                 j # k => extracted[j].url # extracted[k].url
           /\ {extracted[k].url : k \in DOMAIN extracted} =
                 {url(i) : i \in DOMAIN anchors}
           /\ \A k \in DOMAIN extracted :
                 /\ extracted[k].name = name(First(extracted[k].url))
                 /\ extracted[k].category = category(First(extracted[k].url))
           /\ \A j, k \in DOMAIN extracted :
                 j < k => First(extracted[j].url) < First(extracted[k].url)

\* Big Mac under Burgers, Fries, and the Big Mac page again under another
\* name in a block without heading: two entries, the first with the name and
\* the category of the first occurrence.
C19_Witness ==
    /\ xpc = "menu_extracted"
    /\ Len(document.anchors) = 3
    /\ document.anchors[1].href = <<"/", "big-mac">>
    /\ document.anchors[1].heading = <<"Burgers">>
    /\ document.anchors[1].first_text = <<" ", "Big Mac">>
    /\ document.anchors[2].href = <<"/", "fries">>
    /\ document.anchors[3].href = <<BaseUrl, "/", "big-mac">>
    /\ document.anchors[3].heading = <<>>
    /\ document.anchors[3].text = <<"Fries">>
    /\ Len(extracted) = 2
    /\ extracted[1] = [name |-> <<"Big Mac">>,
                       url |-> <<BaseUrl, "/", "big-mac">>,
                       category |-> <<"Burgers">>]
    /\ extracted[2].url = <<BaseUrl, "/", "fries">>

\* ---------------------------------------------------------------- C20
\* C20 as claimed: the map extract_nutrition_table returns equals the map of
\* this reference: a row with a header cell and at least one data cell gives
\* (header text, first data cell), a row without header cell and with two or
\* more data cells gives (first cell, second cell); the pair is dropped when
\* its key starts with "amount per serving", "% daily value" or
\* "percent daily", or when its value is empty, "?", "&nbsp;" or "-";
\* otherwise snake_case(key) is set to the value, a later row replacing an
\* earlier one with the same key.
C20_EqualsReference ==
    xpc = "table_extracted" =>
        LET rows == document.rows
            HasPair(i) ==
                \/ rows[i].has_header /\ Len(rows[i].data) >= 1
                \/ ~rows[i].has_header /\ Len(rows[i].data) >= 2
            key(i) == IF rows[i].has_header THEN rows[i].header
                      ELSE rows[i].data[1]
            value(i) == IF rows[i].has_header THEN rows[i].data[1]
                        ELSE rows[i].data[2]
            Dropped(i) ==
                \/ \E prefix \in HeaderPrefixes :
                      StartsWith(Lowered(key(i)), prefix)
                \/ value(i) \in Placeholders
            set == {i \in DOMAIN rows : HasPair(i) /\ ~Dropped(i)}
            LastSet(k) ==
                CHOOSE i \in set :
                    /\ to_snake_case(key(i)) = k
                    /\ \A j \in set : to_snake_case(key(j)) = k => j <= i
        IN /\ DOMAIN extracted = {to_snake_case(key(i)) : i \in set}
           /\ \A k \in DOMAIN extracted : extracted[k] = value(LastSet(k))

\* C20 as amended: the same reference, with one more reason to drop a pair:
\* its key is empty.
C20_EqualsReferenceWithoutEmptyKeys ==
    xpc = "table_extracted" =>
        LET rows == document.rows
            HasPair(i) ==
                \/ rows[i].has_header /\ Len(rows[i].data) >= 1
                \/ ~rows[i].has_header /\ Len(rows[i].data) >= 2
            key(i) == IF rows[i].has_header THEN rows[i].header
                      ELSE rows[i].data[1]
            value(i) == IF rows[i].has_header THEN rows[i].data[1]
                        ELSE rows[i].data[2]
            Dropped(i) ==
                \/ key(i) = <<>>
                \/ \E prefix \in HeaderPrefixes :
                      StartsWith(Lowered(key(i)), prefix)
                \/ value(i) \in Placeholders
            set == {i \in DOMAIN rows : HasPair(i) /\ ~Dropped(i)}
            LastSet(k) ==
                CHOOSE i \in set :
                    /\ to_snake_case(key(i)) = k
                    /\ \A j \in set : to_snake_case(key(j)) = k => j <= i
        IN /\ DOMAIN extracted = {to_snake_case(key(i)) : i \in set}
           /\ \A k \in DOMAIN extracted : extracted[k] = value(LastSet(k))

\* A row of three cells without header cell (Vitamin D (mcg), 5g, 3%) and a
\* header row "Amount Per Serving": the map holds vitamin_d_mcg = 5g only.
C20_Witness ==
    /\ xpc = "table_extracted"
    /\ Len(document.rows) = 2
    /\ ~document.rows[1].has_header
    /\ document.rows[1].data = <<KeyVitaminD, <<"5", "g">>, PercentText>>
    /\ document.rows[2].has_header
    /\ document.rows[2].header = KeyAmountPerServing
    /\ document.rows[2].data = <<<<"0", "g">>>>
    /\ extracted =
          (<<"v", "i", "t", "a", "m", "i", "n", "_", "d", "_", "m", "c", "g">>
              :> <<"5", "g">>)

\* ---------------------------------------------------------------- C21
\* C21: after the restaurant filters (name list, then count cap) the working
\* set only shrinks: every restaurant name that is a key of the mapping the
\* nutrition stage returns, the content of 03_enriched_data.json, is the name
\* of a restaurant of the filtered stage-1 list, whatever the checkpoint
\* directory holds.
C21_OutputWithinFilteredList ==
    "03_enriched_data.json" \in written =>
        DOMAIN enriched_data \subseteq
            {restaurants[i].name : i \in DOMAIN restaurants}

C23_AttemptOrder ==
    [][LET failed == callFails' = callFails + 1
           asked == retry_delay * (2 ^ attempt)
       IN /\ (fpc = "loop" /\ attempt < max_retries) =>
                fpc' = "wait" /\ now' = now /\ callGets' = callGets
          /\ fpc = "wait" => fpc' = "get" /\ callGets' = callGets
          /\ fpc = "get" => callGets' = callGets + 1 /\ attempt' = attempt
          /\ (fpc = "get" /\ ~failed) => fpc' = "returned" /\ result' = "doc"
          /\ (fpc = "get" /\ failed /\ attempt < max_retries - 1) =>
                fpc' = "backoff"
          /\ (fpc = "get" /\ failed /\ attempt >= max_retries - 1) =>
                fpc' = "raised" /\ result' = "NetworkException"
          /\ fpc = "backoff" =>
                /\ now' - now >= asked
                /\ now' - now <= asked + MaxOversleep
                /\ attempt' = attempt + 1
                /\ fpc' = "loop"
                /\ callGets' = callGets
          /\ (fpc # "get" /\ fpc' # "idle" /\ fpc # "idle") =>
                callGets' = callGets
    ]_vars

\* A call with retry_delay 2 and three attempts that all failed: the second
\* and the third GET are at least 4 apart, and NetworkException is raised.
C23_Witness ==
    /\ fpc = "raised"
    /\ retry_delay = 2
    /\ max_retries = 3
    /\ callGets = 3
    /\ callFails = 3
    /\ attempt = 2
    /\ lastGet.time - prevGet.time >= 4

\* ---------------------------------------------------------------- C28
\* C28: after any sequence of fetch_page calls on one scraper instance the
\* stats satisfy total_requests = successful_requests + failed_requests,
\* total_requests is the number of calls that have ended, and total_retries
\* is the number of failed GET attempts, the last failed attempt of an
\* exhausted call included: it starts at 0 and grows by one with every failed
\* GET and with nothing else.
C28_StatsAccounting ==
    /\ [](LET under_way == fpc \in {"loop", "wait", "get", "backoff"}
              ended == callsInStage - (IF under_way THEN 1 ELSE 0)
          IN /\ stats.total_requests =
                   stats.successful_requests + stats.failed_requests
             /\ stats.total_requests = ended)
    /\ [][IF stage' # stage /\ stage' \in 1..3
          THEN stats'.total_retries = 0
          ELSE stats'.total_retries =
                  stats.total_retries +
                  (IF fpc = "get" /\ callFails' = callFails + 1 THEN 1 ELSE 0)
       ]_vars

\* ---------------------------------------------------------------- C24
\* C24 as claimed: for an item with a url whose processing succeeds, the
\* first page fetched is the item's default page, and every fetch returns
\* without an exception; with a size selector of n distinct option URLs the
\* default page is followed by exactly n fetches, one per distinct option URL
\* in the order of the options' first occurrence (n + 1 fetches), for every
\* n including 0; with no size selector there are exactly 2 fetches, both of
\* the item's url.
C24_FetchesFollowOptions ==
    (ipc = "returned" /\ failure = "" /\ item_url # <<>>) =>
        LET anchors == dropdown.anchors
            url(i) == Urljoin(BaseUrl, anchors[i].href)
            n == Cardinality({url(i) : i \in DOMAIN anchors})
            first(u) == CHOOSE i \in DOMAIN anchors :
                           url(i) = u /\ \A j \in 1..(i - 1) : url(j) # u
            variant(k) == item_fetches[k + 1].url
        IN /\ item_fetches # <<>>
           /\ item_fetches[1].url = item_url
           /\ \A k \in DOMAIN item_fetches :
                 item_fetches[k].result # "NetworkException"
           /\ dropdown.present =>
                 /\ Len(item_fetches) = n + 1
                 /\ \A k \in 1..n : \E i \in DOMAIN anchors : url(i) = variant(k)
                 /\ \A k, l \in 1..n :
                       k < l => first(variant(k)) < first(variant(l))
           /\ ~dropdown.present =>
                 /\ Len(item_fetches) = 2
                 /\ item_fetches[2].url = item_url

\* C24 as amended: as above for a selector with n >= 1 distinct option URLs;
\* with no size selector, or with a selector that has no option, there are
\* exactly 2 fetches, both of the item's url.
C24_FetchesFollowOptionsIfAny ==
    (ipc = "returned" /\ failure = "" /\ item_url # <<>>) =>
        LET anchors == dropdown.anchors
            url(i) == Urljoin(BaseUrl, anchors[i].href)
            n == Cardinality({url(i) : i \in DOMAIN anchors})
            first(u) == CHOOSE i \in DOMAIN anchors :
                           url(i) = u /\ \A j \in 1..(i - 1) : url(j) # u
            variant(k) == item_fetches[k + 1].url
        IN /\ item_fetches # <<>>
           /\ item_fetches[1].url = item_url
           /\ \A k \in DOMAIN item_fetches :
                 item_fetches[k].result # "NetworkException"
           /\ (dropdown.present /\ n >= 1) =>
                 /\ Len(item_fetches) = n + 1
                 /\ \A k \in 1..n : \E i \in DOMAIN anchors : url(i) = variant(k)
                 /\ \A k, l \in 1..n :
                       k < l => first(variant(k)) < first(variant(l))
           /\ (~dropdown.present \/ n = 0) =>
                 /\ Len(item_fetches) = 2
                 /\ item_fetches[2].url = item_url

\* The selector of the page /small lists /large and then /small itself: the
\* default page, the page /large and the default page again were fetched.
C24_Witness ==
    /\ ipc = "returned" /\ failure = ""
    /\ dropdown.present
    /\ Len(item_fetches) = 3
    /\ item_fetches[1] = [url |-> <<BaseUrl, "/", "small">>, result |-> "doc"]
    /\ item_fetches[2] = [url |-> <<BaseUrl, "/", "large">>, result |-> "doc"]
    /\ item_fetches[3] = item_fetches[1]

\* ---------------------------------------------------------------- C27
\* C27: for a menu item whose url is empty or missing no page fetch is ever
\* issued: process_menu_item goes through none of its fetching steps and
\* returns the item unchanged, without the keys nutritional_values, allergens
\* and ingredients, and scrape appends the item as it is and goes on.
C27_NoFetchWithoutUrl ==
    ("url" \notin DOMAIN item \/ item.url = <<>>) =>
        /\ item_fetches = <<>>
        /\ variant_pages = <<>>
        /\ ipc \in {"call", "returned", "appended"}
        /\ ipc \in {"returned", "appended"} =>
              /\ processed_item = item
              /\ DOMAIN processed_item \cap
                    {"nutritional_values", "allergens", "ingredients"} = {}
        /\ ipc = "appended" => emitted = <<item>>

\* An item without the key url has been returned and appended as it was.
C27_Witness ==
    /\ "url" \notin DOMAIN item
    /\ item.name = <<"Fries">>
    /\ ipc = "appended"
    /\ emitted = <<item>>
    /\ item_fetches = <<>>

\* ---------------------------------------------------------------- C29
\* C29: in the loop over the options, a variant whose allergen result has
\* empty contains, does_not_contain and unknown lists leaves the aggregated
\* allergens as they were, whatever its allergy_information text; a variant
\* with a non-empty list replaces them by its whole result.  So the allergens
\* of the item returned are the initial empty result or the whole result,
\* lists and allergy_information together, of one variant that has a
\* non-empty list.
C29_InformationFollowsLists ==
    /\ [][(ipc = "options" /\ Len(variant_pages') = Len(variant_pages) + 1) =>
             LET a == variant_pages'[Len(variant_pages')].page.allergens
             IN IF a.contains = <<>> /\ a.does_not_contain = <<>>
                   /\ a.unknown = <<>>
                THEN aggregated_allergens' = aggregated_allergens
                ELSE aggregated_allergens' = a
         ]_vars
    /\ []((ipc = "returned" /\ failure = "" /\ options # <<>>) =>
             \/ processed_item.allergens = EmptyAllergens
             \/ \E k \in DOMAIN variant_pages :
                   LET a == variant_pages[k].page.allergens
                   IN /\ processed_item.allergens = a
                      /\ processed_item.allergens.allergy_information =
                            a.allergy_information
                      /\ \/ a.contains # <<>>
                         \/ a.does_not_contain # <<>>
                         \/ a.unknown # <<>>)

\* The first variant has a contains list and no text, the second a text and
\* no list: the item has the first variant's result, with no text.
C29_Witness ==
    /\ ipc = "returned" /\ failure = ""
    /\ Len(variant_pages) = 2
    /\ variant_pages[1].page.allergens.contains # <<>>
    /\ variant_pages[1].page.allergens.allergy_information = <<>>
    /\ variant_pages[2].page.allergens.contains = <<>>
    /\ variant_pages[2].page.allergens.unknown = <<>>
    /\ variant_pages[2].page.allergens.allergy_information # <<>>
    /\ processed_item.allergens = variant_pages[1].page.allergens
    /\ processed_item.allergens.allergy_information = <<>>

\* ---------------------------------------------------------------- C30
\* C30: every entry of the nutrition stage's mapping has exactly the keys
\* url, restaurant_logo and items; the entry of a restaurant processed in
\* this run holds the url and the logo of its input entry, and no other field
\* of the input entry, the error field of a placeholder of the menu stage
\* included.
C30_EntryHasThreeKeys ==
    ppc \in {"s3", "s3_done", "s4", "done"} =>
        \A name \in DOMAIN enriched_data :
            /\ DOMAIN enriched_data[name] = {"url", "restaurant_logo", "items"}
            /\ name \in completed =>
                  /\ enriched_data[name].url = menu_data[name].url
                  /\ enriched_data[name].restaurant_logo =
                        menu_data[name].restaurant_logo

\* The menu stage left a placeholder with an error field for a restaurant;
\* the nutrition stage has written the restaurant's entry without it.
C30_Witness ==
    /\ "03_enriched_data.json" \in written
    /\ \E name \in completed :
          /\ "error" \in DOMAIN menu_data[name]
          /\ name \in DOMAIN enriched_data
          /\ "error" \notin DOMAIN enriched_data[name]
          /\ enriched_data[name].items = <<>>

C26_ExactlyOneBucket ==
    (xpc = "allergens_extracted" /\ document.section) =>
        LET cols == document.columns
            text(i) == Lowered(cols[i].header)
            Cond(b, h) ==
                CASE b = "contains" ->
                        In(Word.contains, h) /\ ~In(Word.not, h) /\ ~In(Word.may, h)
                  [] b = "does_not_contain" -> In(Word.does_not_contain, h)
                  [] b = "unknown" ->
                        In(Word.unknown, h) \/ In(Word.arent_sure, h)
            Buckets == {"contains", "does_not_contain", "unknown"}
            headed == {i \in DOMAIN cols : cols[i].has_header}
            Of(b) == {i \in headed : Cond(b, text(i))}
            Last(S) == CHOOSE m \in S : \A k \in S : k <= m
        IN /\ \A i \in headed :
                 Cardinality({b \in Buckets : Cond(b, text(i))}) = 1
           /\ \A b \in Buckets :
                 extracted[b] =
                    IF Of(b) = {} THEN <<>>
                    ELSE SelectSeq(cols[Last(Of(b))].dots, NonEmptyText)

\* C26 as amended: every column with a bold header has its list of non-empty
\* dot texts assigned to at most one bucket, the first of contains,
\* does_not_contain, unknown whose condition its lower-cased header text
\* meets; a column whose header meets none of the three conditions is
\* assigned to no bucket.  Each bucket of the result holds the list of the
\* last column assigned to it, and the empty list when there is none.
C26_AtMostOneBucketFirstMatch ==
    (xpc = "allergens_extracted" /\ document.section) =>
        LET cols == document.columns
            text(i) == Lowered(cols[i].header)
            IsContains(h) ==
                In(Word.contains, h) /\ ~In(Word.not, h) /\ ~In(Word.may, h)
            IsDoesNotContain(h) == In(Word.does_not_contain, h)
            IsUnknown(h) == In(Word.unknown, h) \/ In(Word.arent_sure, h)
            headed == {i \in DOMAIN cols : cols[i].has_header}
            OfContains == {i \in headed : IsContains(text(i))}
            OfDoesNotContain ==
                {i \in headed \ OfContains : IsDoesNotContain(text(i))}
            OfUnknown ==
                {i \in headed \ (OfContains \cup OfDoesNotContain) :
                    IsUnknown(text(i))}
            Last(S) == CHOOSE m \in S : \A k \in S : k <= m
            ListOf(S) ==
                IF S = {} THEN <<>>
                ELSE SelectSeq(cols[Last(S)].dots, NonEmptyText)
        IN /\ extracted.contains = ListOf(OfContains)
           /\ extracted.does_not_contain = ListOf(OfDoesNotContain)
           /\ extracted.unknown = ListOf(OfUnknown)

\* A section with the columns "May Contain" and "Does Not Contain": the list
\* of the first is in no bucket, the list of the second, without its empty
\* dot, in does_not_contain.
C26_Witness ==
    /\ xpc = "allergens_extracted"
    /\ document.section
    /\ Len(document.columns) = 2
    /\ document.columns[1] =
          [has_header |-> TRUE, header |-> Headers.may_contain, dots |-> <<"Milk">>]
    /\ document.columns[2] =
          [has_header |-> TRUE, header |-> Headers.does_not_contain,
           dots |-> <<"", "Soy">>]
    /\ extracted.contains = <<>>
    /\ extracted.does_not_contain = <<"Soy">>
    /\ extracted.unknown = <<>>

====
